---- MODULE Spec2Model ----
(***************************************************************************)
(* A model of the geodesic ray-casting core: BvhConfig validation, the    *)
(* top-down SAH builder (BvhBuilder), the flat-array Bvh and its two      *)
(* traversals, over primitives that are axis-aligned boxes (Aabb) and     *)
(* infinite planes (Plane).                                                *)
(*                                                                         *)
(* Arithmetic.  The scalar type T is modelled by the integers, computed   *)
(* exactly.  All shape coordinates are even, so Aabb::centre is exact.    *)
(* Two quantities of find_best_split are rationals and are kept as        *)
(* numerators over a denominator that is fixed within one call:           *)
(*   - SplitCandidate.position is stored times config.sah_buckets,        *)
(*   - SplitCandidate.cost and leaf_cost are stored times                 *)
(*     node_surface_area (which is > 0 wherever a cost is computed).      *)
(* Costs of the configuration are stored in quarters (1.0 is 4, 1.25      *)
(* is 5).  Rays are axis-aligned unit rays, so every slab distance is an  *)
(* integer; a zero direction component has reciprocal Infinity.           *)
(* default_epsilon is positive and smaller than the model's resolution    *)
(* of 1, so "t < epsilon" is "t <= 0" on the integers.                    *)
(***************************************************************************)
EXTENDS Integers, Sequences, FiniteSets, TLC

(***************************************************************************)
(* Bounds of the model.                                                    *)
(***************************************************************************)
\* Longest primitive sequence handed to the builder in Spec.
MaxPrims == 5
\* Longest primitive sequence of a scene that is queried in SpecQuery.
MaxScenePrims == 4
\* Longest triangle list handed to Mesh::new in SpecInstance.
MaxMeshPrims == 4

\* The largest number of primitives of a node given to find_best_split alone.
MaxSplitPrims == 4
\* Bits of the significand of the scalar type in SpecBinning (53 in f64).
SignificandBits == 4
\* Bits after the binary point of the finest scalar in SpecBinning.
FractionBits == 10

(***************************************************************************)
(* Program constants.                                                      *)
(***************************************************************************)
\* config.rs: 1.0, in quarters.
DEFAULT_TRAVERSE_COST == 4
\* config.rs: 1.25, in quarters.
DEFAULT_INTERSECT_COST == 5
DEFAULT_SAH_BUCKETS == 16
DEFAULT_MAX_SHAPES_PER_NODE == 4
DEFAULT_MAX_DEPTH == 64
\* T::max_value(): the largest finite scalar; T::min_value() is its negation.
MaxValue == 1000000
\* Plane::aabb: the half-width standing for "infinity" (1e12 in the source,
\* scaled so that surface areas stay inside TLC's integers; what matters is
\* that it is finite and that a ray origin may lie beyond it).
LargeValue == 100

\* The reciprocal of a zero direction component (not finite).
Infinity == MaxValue + 1

Axes == 0 .. 2

Pt(x, y, z) == (0 :> x) @@ (1 :> y) @@ (2 :> z)

Min(a, b) == IF a <= b THEN a ELSE b

Max(a, b) == IF a >= b THEN a ELSE b

\* Length of a zero-based vector (a function on 0 .. n-1).
VecLen(v) == Cardinality(DOMAIN v)

None == [some |-> FALSE]

Some(v) == [some |-> TRUE, value |-> v]

\* Vector3 and Point3 arithmetic
Dot(u, v) == (u[0] * v[0]) + (u[1] * v[1]) + (u[2] * v[2])

Cross(u, v) ==
    Pt((u[1] * v[2]) - (u[2] * v[1]),
       (u[2] * v[0]) - (u[0] * v[2]),
       (u[0] * v[1]) - (u[1] * v[0]))

Sub(u, v) == [i \in Axes |-> u[i] - v[i]]

Add(u, v) == [i \in Axes |-> u[i] + v[i]]

Abs(x) == IF x < 0 THEN -x ELSE x

Sign(x) == IF x < 0 THEN -1 ELSE IF x > 0 THEN 1 ELSE 0

\* T::sqrt on a perfect square
Sqrt(x) == CHOOSE k \in 0 .. x : k * k = x

IsSquare(x) == \E k \in 0 .. x : k * k = x

\* origin + t * direction
PointAt(r, t) == [i \in Axes |-> r.origin[i] + (t * r.direction[i])]

(***************************************************************************)
(* Aabb                                                                    *)
(***************************************************************************)
AabbNew(mins, maxs) == [mins |-> mins, maxs |-> maxs]

AabbEmpty ==
    [mins |-> Pt(MaxValue, MaxValue, MaxValue),
     maxs |-> Pt(-MaxValue, -MaxValue, -MaxValue)]

centre(aabb) == [i \in Axes |-> (aabb.mins[i] + aabb.maxs[i]) \div 2]

surface_area(aabb) ==
    LET extent == [i \in Axes |-> aabb.maxs[i] - aabb.mins[i]]
    IN  2 * ((extent[0] * extent[1]) + (extent[1] * extent[2]) + (extent[2] * extent[0]))

\* merge with the maximum corner taken from the first box alone: a fault
\* that forgets the second box's extent.
merge_keeps_first_maxs(a, b) ==
    AabbNew([i \in Axes |-> Min(a.mins[i], b.mins[i])], a.maxs)

\* Aabb::merge
merge(a, b) ==
    AabbNew([i \in Axes |-> Min(a.mins[i], b.mins[i])],
            [i \in Axes |-> Max(a.maxs[i], b.maxs[i])])

(***************************************************************************)
(* BvhConfig                                                               *)
(***************************************************************************)
Err(e) == [ok |-> FALSE, err |-> e]

Ok(v) == [ok |-> TRUE, value |-> v]

\* BvhConfigNew with the leaf cap required to exceed three: a fault that
\* rejects max_shapes_per_node = 3.
BvhConfigNewAboveThree(traverse_cost, intersect_cost, sah_buckets, max_shapes_per_node, max_depth) ==
    IF traverse_cost <= 0 THEN Err("InvalidTraverseCost")
    ELSE IF intersect_cost <= 0 THEN Err("InvalidIntersectCost")
    ELSE IF sah_buckets = 0 THEN Err("InvalidSahBuckets")
    ELSE IF max_shapes_per_node <= 3 THEN Err("InvalidMaxShapesPerNode")
    ELSE IF max_depth = 0 THEN Err("InvalidMaxDepth")
    ELSE Ok([traverse_cost |-> traverse_cost,
             intersect_cost |-> intersect_cost,
             sah_buckets |-> sah_buckets,
             max_shapes_per_node |-> max_shapes_per_node,
             max_depth |-> max_depth])

\* BvhConfigNew with more than one bucket required: a fault that rejects
\* sah_buckets = 1.
BvhConfigNewSeveralBuckets(traverse_cost, intersect_cost, sah_buckets, max_shapes_per_node, max_depth) ==
    IF traverse_cost <= 0 THEN Err("InvalidTraverseCost")
    ELSE IF intersect_cost <= 0 THEN Err("InvalidIntersectCost")
    ELSE IF sah_buckets <= 1 THEN Err("InvalidSahBuckets")
    ELSE IF max_shapes_per_node <= 2 THEN Err("InvalidMaxShapesPerNode")
    ELSE IF max_depth = 0 THEN Err("InvalidMaxDepth")
    ELSE Ok([traverse_cost |-> traverse_cost,
             intersect_cost |-> intersect_cost,
             sah_buckets |-> sah_buckets,
             max_shapes_per_node |-> max_shapes_per_node,
             max_depth |-> max_depth])

BvhConfigNew(traverse_cost, intersect_cost, sah_buckets, max_shapes_per_node, max_depth) ==
    IF traverse_cost <= 0 THEN Err("InvalidTraverseCost")
    ELSE IF intersect_cost <= 0 THEN Err("InvalidIntersectCost")
    ELSE IF sah_buckets = 0 THEN Err("InvalidSahBuckets")
    ELSE IF max_shapes_per_node <= 2 THEN Err("InvalidMaxShapesPerNode")
    ELSE IF max_depth = 0 THEN Err("InvalidMaxDepth")
    ELSE Ok([traverse_cost |-> traverse_cost,
             intersect_cost |-> intersect_cost,
             sah_buckets |-> sah_buckets,
             max_shapes_per_node |-> max_shapes_per_node,
             max_depth |-> max_depth])

BvhConfigDefault ==
    BvhConfigNew(DEFAULT_TRAVERSE_COST, DEFAULT_INTERSECT_COST, DEFAULT_SAH_BUCKETS,
                 DEFAULT_MAX_SHAPES_PER_NODE, DEFAULT_MAX_DEPTH)

(***************************************************************************)
(* Primitives: Bounded + Traceable                                         *)
(***************************************************************************)
\* An axis-aligned box used as a primitive (impl Bounded/Traceable for Aabb).
Box(mins, maxs) == [kind |-> "Aabb", mins |-> mins, maxs |-> maxs]

\* Plane::new(point, normal) with an axis-aligned unit normal +e_axis.
Plane(point, axis) == [kind |-> "Plane", point |-> point, normal |-> axis]

PlaneAabb ==
    AabbNew(Pt(-LargeValue, -LargeValue, -LargeValue),
            Pt(LargeValue, LargeValue, LargeValue))

\* Triangle::new.  The three vertex normals are one unit vector; the
\* geometric normal normalize(edge1 x edge2) is given for a cross product
\* along an axis, and is the zero vector here where the code gets NaN
\* components (a vanishing cross product).
TriangleNew(vertices, normal) ==
    LET edge1 == Sub(vertices[1], vertices[0])
        edge2 == Sub(vertices[2], vertices[0])
        n == Cross(edge1, edge2)
    IN  [kind |-> "Triangle", vertex0 |-> vertices[0], normals |-> normal,
         edge1 |-> edge1, edge2 |-> edge2,
         geometric_normal |-> [i \in Axes |-> Sign(n[i])]]

\* <Triangle as Bounded>::aabb
TriangleAabb(triangle) ==
    LET v0 == triangle.vertex0
        v1 == Add(v0, triangle.edge1)
        v2 == Add(v0, triangle.edge2)
    IN  AabbNew([i \in Axes |-> Min(Min(v0[i], v1[i]), v2[i])],
                [i \in Axes |-> Max(Max(v0[i], v1[i]), v2[i])])

\* Bounded::aabb
aabb(shape) ==
    IF shape.kind = "Plane" THEN PlaneAabb
    ELSE IF shape.kind = "Triangle" THEN TriangleAabb(shape)
    ELSE AabbNew(shape.mins, shape.maxs)

(***************************************************************************)
(* Ray                                                                     *)
(***************************************************************************)
IsFinite(x) == (x # Infinity) /\ (x # -Infinity)

\* Ray::new for a direction with components in {-1, 0, 1}: 1/d is d for a
\* unit component and +Infinity for a zero component.
RayNew(origin, direction) ==
    LET inv_direction == [i \in Axes |-> IF direction[i] = 0 THEN Infinity ELSE direction[i]]
    IN  [origin |-> origin,
         direction |-> direction,
         inv_direction |-> inv_direction,
         sign |-> [i \in Axes |-> IF inv_direction[i] < 0 THEN 1 ELSE 0]]

(***************************************************************************)
(* Ray / Aabb slab tests                                                   *)
(***************************************************************************)
RECURSIVE slabs(_, _, _, _, _)
\* The loop "for i in 0..3" of Aabb::intersect_any and Aabb::intersect_distance,
\* from axis i on with the running t_min and t_max.
slabs(box, ray, i, t_min, t_max) ==
    IF i = 3 THEN [miss |-> FALSE, t_min |-> t_min, t_max |-> t_max]
    ELSE
        LET ray_origin_i == ray.origin[i]
            inv_dir_i == ray.inv_direction[i]
            box_min_i == box.mins[i]
            box_max_i == box.maxs[i]
        IN  IF ~IsFinite(inv_dir_i)
            THEN IF (ray_origin_i < box_min_i) \/ (ray_origin_i > box_max_i)
                 THEN [miss |-> TRUE, t_min |-> t_min, t_max |-> t_max]
                 ELSE slabs(box, ray, i + 1, t_min, t_max)
            ELSE
                LET t0 == (box_min_i - ray_origin_i) * inv_dir_i
                    t1 == (box_max_i - ray_origin_i) * inv_dir_i
                    t_near == IF ray.sign[i] = 0 THEN t0 ELSE t1
                    t_far == IF ray.sign[i] = 0 THEN t1 ELSE t0
                    new_min == Max(t_min, t_near)
                    new_max == Min(t_max, t_far)
                IN  IF new_min > new_max
                    THEN [miss |-> TRUE, t_min |-> new_min, t_max |-> new_max]
                    ELSE slabs(box, ray, i + 1, new_min, new_max)

\* Aabb::intersect_any rejecting t_max = 0 as well: a fault that treats a
\* box touched at the ray origin as behind the ray.
AabbIntersectAnyStrict(box, ray) ==
    LET r == slabs(box, ray, 0, 0, MaxValue)
    IN  IF r.miss THEN FALSE
        ELSE IF r.t_max <= 0 THEN FALSE
        ELSE TRUE

\* Aabb::intersect_any
AabbIntersectAny(box, ray) ==
    LET r == slabs(box, ray, 0, 0, MaxValue)
    IN  IF r.miss THEN FALSE
        ELSE IF r.t_max < 0 THEN FALSE
        ELSE TRUE

\* Aabb::intersect_distance
AabbIntersectDistance(box, ray) ==
    LET r == slabs(box, ray, 0, 0, MaxValue)
    IN  IF r.miss THEN None
        ELSE IF r.t_max < 0 THEN None
        ELSE Some(IF r.t_min >= 0 THEN r.t_min ELSE r.t_max)

(***************************************************************************)
(* Traceable kernels                                                       *)
(***************************************************************************)
\* Hit::new; the index is set by Mesh::intersect only.
HitNew(distance, normal) == [index |-> 0, distance |-> distance, normal |-> normal]

AxisNormal(axis, sign) == [i \in Axes |-> IF i = axis THEN sign ELSE 0]

RECURSIVE AabbEntry(_, _, _, _, _, _, _)
\* First loop of <Aabb as Traceable>::intersect: the slab loop that also
\* tracks the face the ray enters through.
AabbEntry(box, ray, i, t_min, t_max, normal_axis, normal_sign) ==
    IF i = 3
    THEN [miss |-> FALSE, t_min |-> t_min, t_max |-> t_max,
          normal_axis |-> normal_axis, normal_sign |-> normal_sign]
    ELSE
        LET ray_origin_i == ray.origin[i]
            inv_dir_i == ray.inv_direction[i]
            box_min_i == box.mins[i]
            box_max_i == box.maxs[i]
            missed == [miss |-> TRUE, t_min |-> t_min, t_max |-> t_max,
                       normal_axis |-> normal_axis, normal_sign |-> normal_sign]
        IN  IF ~IsFinite(inv_dir_i)
            THEN IF (ray_origin_i < box_min_i) \/ (ray_origin_i > box_max_i)
                 THEN missed
                 ELSE AabbEntry(box, ray, i + 1, t_min, t_max, normal_axis, normal_sign)
            ELSE
                LET t0 == (box_min_i - ray_origin_i) * inv_dir_i
                    t1 == (box_max_i - ray_origin_i) * inv_dir_i
                    t_near == IF ray.sign[i] = 0 THEN t0 ELSE t1
                    t_far == IF ray.sign[i] = 0 THEN t1 ELSE t0
                    enters == t_near > t_min
                    new_min == IF enters THEN t_near ELSE t_min
                    new_axis == IF enters THEN i ELSE normal_axis
                    new_sign == IF enters THEN (IF ray.sign[i] = 0 THEN -1 ELSE 1) ELSE normal_sign
                    new_max == Min(t_max, t_far)
                IN  IF new_min > new_max
                    THEN missed
                    ELSE AabbEntry(box, ray, i + 1, new_min, new_max, new_axis, new_sign)

RECURSIVE AabbExitFace(_, _, _, _, _)
\* Second loop of <Aabb as Traceable>::intersect: the exit face, looked for
\* when t_min < 0.
AabbExitFace(box, ray, i, t_max, fallback) ==
    IF i = 3 THEN fallback
    ELSE IF ~IsFinite(ray.inv_direction[i]) THEN AabbExitFace(box, ray, i + 1, t_max, fallback)
    ELSE
        LET t0 == (box.mins[i] - ray.origin[i]) * ray.inv_direction[i]
            t1 == (box.maxs[i] - ray.origin[i]) * ray.inv_direction[i]
            t_far == IF ray.sign[i] = 0 THEN t1 ELSE t0
        IN  IF t_far = t_max
            THEN [axis |-> i, sign |-> IF ray.sign[i] = 0 THEN 1 ELSE -1]
            ELSE AabbExitFace(box, ray, i + 1, t_max, fallback)

\* <Aabb as Traceable>::intersect
AabbIntersect(box, ray) ==
    LET r == AabbEntry(box, ray, 0, 0, MaxValue, 0, 1)
    IN  IF r.miss THEN None
        ELSE IF r.t_max < 0 THEN None
        ELSE
            LET distance == IF r.t_min >= 0 THEN r.t_min ELSE r.t_max
                face == IF r.t_min < 0
                        THEN AabbExitFace(box, ray, 0, r.t_max,
                                          [axis |-> r.normal_axis, sign |-> r.normal_sign])
                        ELSE [axis |-> r.normal_axis, sign |-> r.normal_sign]
            IN  Some(HitNew(distance, AxisNormal(face.axis, face.sign)))

\* <Plane as Traceable>::intersect
PlaneIntersect(plane, ray) ==
    LET denominator == ray.direction[plane.normal]
    IN  IF denominator = 0 THEN None
        ELSE
            LET to_point == plane.point[plane.normal] - ray.origin[plane.normal]
                t == to_point * denominator
            IN  IF t <= 0 THEN None
                ELSE Some(HitNew(t, AxisNormal(plane.normal,
                                               IF denominator < 0 THEN 1 ELSE -1)))

(***************************************************************************)
(* Sphere and Triangle kernels.  Rays are axis-aligned unit rays and the   *)
(* arguments drawn by Init keep every quantity an integer: a sphere is     *)
(* only met by rays whose discriminant is a perfect square, and a          *)
(* triangle lies in an axis-aligned plane, so that the barycentric         *)
(* coordinates are multiples of 1/|a| and the hit distance is a whole      *)
(* number.  u, v and t are kept as numerators over |a|.                    *)
(***************************************************************************)
\* Sphere { center, radius }
Sphere(center, radius) == [kind |-> "Sphere", center |-> center, radius |-> radius]

\* Sphere::new under both builds: debug_assert! panics on a negative
\* radius when debug assertions are compiled in and is absent otherwise.
SphereNewOutcomes(center, radius) ==
    IF radius >= 0
    THEN {[panic |-> FALSE, value |-> Sphere(center, radius)]}
    ELSE {[panic |-> TRUE, value |-> Sphere(center, radius)],
          [panic |-> FALSE, value |-> Sphere(center, radius)]}

\* b * b - 4 * a * c of Sphere::intersect
Discriminant(sphere, r) ==
    LET oc == Sub(r.origin, sphere.center)
        a == Dot(r.direction, r.direction)
        b == 2 * Dot(oc, r.direction)
        c == Dot(oc, oc) - (sphere.radius * sphere.radius)
    IN  (b * b) - (4 * a * c)

\* <Sphere as Traceable>::intersect.  The normal is kept as the vector
\* intersection_point - center, which the code divides by the radius.
SphereIntersect(sphere, r) ==
    LET oc == Sub(r.origin, sphere.center)
        a == Dot(r.direction, r.direction)
        b == 2 * Dot(oc, r.direction)
        discriminant == Discriminant(sphere, r)
    IN  IF discriminant < 0 THEN None
        ELSE
            LET sqrt_discriminant == Sqrt(discriminant)
                two_a == 2 * a
                t1 == ((-b) - sqrt_discriminant) \div two_a
                t2 == ((-b) + sqrt_discriminant) \div two_a
            IN  IF (t1 <= 0) /\ (t2 <= 0) THEN None
                ELSE
                    LET t == IF t1 > 0 THEN t1 ELSE t2
                        intersection_point == PointAt(r, t)
                    IN  Some(HitNew(t, Sub(intersection_point, sphere.center)))

\* A hit of a triangle: Hit::new with both normals.  nan marks a distance
\* that is NaN (the distance field is then meaningless).
TriangleHit(distance, geometric_normal, interpolated_normal, nan) ==
    [index |-> 0, distance |-> distance, normal |-> geometric_normal,
     interpolated_normal |-> interpolated_normal, nan |-> nan]

\* Hit::new as called by a kernel returning Result: an error for a
\* negative distance.  A NaN distance is not below zero and is accepted.
HitTry(hit) ==
    IF (~hit.nan) /\ (hit.distance < 0)
    THEN Err("NegativeIntersectionDistance")
    ELSE Ok(Some(hit))

\* <Triangle as Traceable>::intersect.  epsilon is default_epsilon times
\* the longer edge: zero when both edges vanish, positive and below the
\* model's resolution otherwise.  With a = 0 and epsilon = 0 the early
\* exit |a| < epsilon is not taken, inv_a = 1 / 0 is infinite, and u, v
\* and t are infinity times zero, NaN: every later comparison is false,
\* no exit is taken and the hit is built with a NaN distance.
TriangleIntersect(triangle, r) ==
    LET zero == Pt(0, 0, 0)
        epsilon_is_zero == (triangle.edge1 = zero) /\ (triangle.edge2 = zero)
        h == Cross(r.direction, triangle.edge2)
        a == Dot(triangle.edge1, h)
    IN  IF a = 0
        THEN IF epsilon_is_zero
             THEN HitTry(TriangleHit(0, triangle.geometric_normal, triangle.normals, TRUE))
             ELSE Ok(None)
        ELSE
            LET s == Sub(r.origin, triangle.vertex0)
                u == Sign(a) * Dot(s, h)
                q == Cross(s, triangle.edge1)
                v == Sign(a) * Dot(r.direction, q)
                t == Sign(a) * Dot(triangle.edge2, q)
            IN  IF (u < 0) \/ (u > Abs(a)) THEN Ok(None)
                ELSE IF (v < 0) \/ (u + v > Abs(a)) THEN Ok(None)
                ELSE IF t <= 0 THEN Ok(None)
                ELSE HitTry(TriangleHit(t \div Abs(a), triangle.geometric_normal,
                                        triangle.normals, FALSE))

\* Traceable::intersect, dispatched on the kind of primitive.  The error
\* arm of a triangle's Result is never taken (see HitTry) and is not
\* carried through the traversal.
intersect(shape, ray) ==
    IF shape.kind = "Plane" THEN PlaneIntersect(shape, ray)
    ELSE IF shape.kind = "Triangle" THEN TriangleIntersect(shape, ray).value
    ELSE AabbIntersect(AabbNew(shape.mins, shape.maxs), ray)

(***************************************************************************)
(* BvhBuilder                                                              *)
(***************************************************************************)
\* BvhNode
BvhNode(box, left_child, count) == [aabb |-> box, left_child |-> left_child, count |-> count]

RECURSIVE BoundsFold(_, _, _, _, _, _)
\* The fold of update_bounds from the i-th primitive of the node on.
BoundsFold(acc, ns, ind, sh, index, i) ==
    IF i >= ns[index].count THEN acc
    ELSE BoundsFold(merge(acc, aabb(sh[ind[ns[index].left_child + i]])), ns, ind, sh, index, i + 1)

\* update_bounds scanning from the second primitive of the range: a fault
\* that leaves the first primitive of a node outside its box.
update_bounds_skip_first(ns, ind, sh, index) ==
    [ns EXCEPT ![index].aabb = BoundsFold(ns[index].aabb, ns, ind, sh, index, 1)]

\* BvhBuilder::update_bounds
update_bounds(ns, ind, sh, index) ==
    [ns EXCEPT ![index].aabb = BoundsFold(ns[index].aabb, ns, ind, sh, index, 0)]

\* The bucket of a centroid coordinate c in a node spanning [lo, lo + extent].
bucket_index(c, lo, extent, sah_buckets) ==
    LET floor == ((c - lo) * sah_buckets) \div extent
        to_usize == IF floor < 0 THEN 0 ELSE floor
    IN  Min(to_usize, sah_buckets - 1)

RECURSIVE AssignBuckets(_, _, _, _, _, _, _)
\* "Assign primitives to buckets": the loop over the node's primitives from i on.
AssignBuckets(buckets, node, ind, sh, axis, sah_buckets, i) ==
    IF i >= node.count THEN buckets
    ELSE
        LET shape_index == ind[node.left_child + i]
            shape_aabb == aabb(sh[shape_index])
            centroid == centre(shape_aabb)
            extent == node.aabb.maxs[axis] - node.aabb.mins[axis]
            b == bucket_index(centroid[axis], node.aabb.mins[axis], extent, sah_buckets)
            n == buckets[b].count + 1
            filled == [buckets EXCEPT ![b] =
                          [count |-> n,
                           aabb |-> IF n = 1 THEN shape_aabb ELSE merge(buckets[b].aabb, shape_aabb)]]
        IN  AssignBuckets(filled, node, ind, sh, axis, sah_buckets, i + 1)

RECURSIVE SideOf(_, _, _, _)
\* Count and merged box (an Option) of the buckets from .. to-1, accumulated
\* as the loops "Calculate left side" / "Calculate right side" do.
SideOf(buckets, from, to, acc) ==
    IF from >= to THEN acc
    ELSE IF buckets[from].count > 0
         THEN SideOf(buckets, from + 1, to,
                     [count |-> acc.count + buckets[from].count,
                      aabb |-> IF acc.aabb.some
                               THEN Some(merge(acc.aabb.value, buckets[from].aabb))
                               ELSE Some(buckets[from].aabb)])
         ELSE SideOf(buckets, from + 1, to, acc)

\* SplitCandidate: position is times sah_buckets, cost is times node_surface_area.
SplitCandidate(axis, position, cost) == [axis |-> axis, position |-> position, cost |-> cost]

\* Improves with <=: a fault that lets a later candidate of equal cost
\* replace the best one.
ImprovesOnTie(best_split, cost) == (~best_split.some) \/ (cost <= best_split.value.cost)

\* is_none_or(|best| cost < best.cost)
Improves(best_split, cost) == (~best_split.some) \/ (cost < best_split.value.cost)

RECURSIVE EvaluateSplits(_, _, _, _, _, _)
\* "Evaluate splits between buckets": the loop over split_bucket from k on.
EvaluateSplits(best_split, buckets, node, cfg, axis, k) ==
    IF k >= cfg.sah_buckets THEN best_split
    ELSE
        LET left == SideOf(buckets, 0, k, [count |-> 0, aabb |-> None])
            right == SideOf(buckets, k, cfg.sah_buckets, [count |-> 0, aabb |-> None])
        IN  IF (left.count = 0) \/ (right.count = 0)
            THEN EvaluateSplits(best_split, buckets, node, cfg, axis, k + 1)
            ELSE
                LET node_surface_area == surface_area(node.aabb)
                    extent == node.aabb.maxs[axis] - node.aabb.mins[axis]
                    left_surface_area == IF left.aabb.some THEN surface_area(left.aabb.value) ELSE 0
                    right_surface_area == IF right.aabb.some THEN surface_area(right.aabb.value) ELSE 0
                    cost == (cfg.traverse_cost * node_surface_area)
                            + (left_surface_area * left.count * cfg.intersect_cost)
                            + (right_surface_area * right.count * cfg.intersect_cost)
                    split_position == (node.aabb.mins[axis] * cfg.sah_buckets) + (extent * k)
                    next == IF Improves(best_split, cost)
                            THEN Some(SplitCandidate(axis, split_position, cost))
                            ELSE best_split
                IN  EvaluateSplits(next, buckets, node, cfg, axis, k + 1)

RECURSIVE TryAxes(_, _, _, _, _, _)
\* "Try all three axes": the loop over axis from the given axis on.
TryAxes(best_split, node, ind, sh, cfg, axis) ==
    IF axis >= 3 THEN best_split
    ELSE
        LET extent == node.aabb.maxs[axis] - node.aabb.mins[axis]
        IN  IF extent <= 0 THEN TryAxes(best_split, node, ind, sh, cfg, axis + 1)
            ELSE
                LET empty == [b \in 0 .. (cfg.sah_buckets - 1) |-> [count |-> 0, aabb |-> AabbEmpty]]
                    buckets == AssignBuckets(empty, node, ind, sh, axis, cfg.sah_buckets, 0)
                    best == EvaluateSplits(best_split, buckets, node, cfg, axis, 1)
                IN  TryAxes(best, node, ind, sh, cfg, axis + 1)

\* BvhBuilder::find_best_split
find_best_split(ns, ind, sh, cfg, node_index) ==
    LET node == ns[node_index]
    IN  IF surface_area(node.aabb) <= 0 THEN None
        ELSE TryAxes(None, node, ind, sh, cfg, 0)

\* swap that writes one side only: a fault that duplicates an index.
swap_one_way(ind, i, j) == [ind EXCEPT ![i] = ind[j]]

\* Vec::swap
swap(ind, i, j) == [ind EXCEPT ![i] = ind[j], ![j] = ind[i]]

RECURSIVE partition_inclusive(_, _, _, _, _, _)
\* partition comparing with <=: a fault that sends a centroid lying on the
\* split position to the left.
partition_inclusive(ind, sh, cfg, best_split, i, j) ==
    IF i > j THEN [indices |-> ind, i |-> i, early |-> FALSE]
    ELSE
        LET shape_index == ind[i]
            centroid == centre(aabb(sh[shape_index]))
        IN  IF centroid[best_split.axis] * cfg.sah_buckets <= best_split.position
            THEN partition_inclusive(ind, sh, cfg, best_split, i + 1, j)
            ELSE IF j = 0
                 THEN [indices |-> swap(ind, i, j), i |-> i, early |-> TRUE]
                 ELSE partition_inclusive(swap(ind, i, j), sh, cfg, best_split, i, j - 1)

RECURSIVE partition(_, _, _, _, _, _)
\* The two-pointer loop "while i <= j" of subdivide.  early is TRUE when the
\* loop is left by the "if j == 0 { return }" inside it.
partition(ind, sh, cfg, best_split, i, j) ==
    IF i > j THEN [indices |-> ind, i |-> i, early |-> FALSE]
    ELSE
        LET shape_index == ind[i]
            centroid == centre(aabb(sh[shape_index]))
        IN  IF centroid[best_split.axis] * cfg.sah_buckets < best_split.position
            THEN partition(ind, sh, cfg, best_split, i + 1, j)
            ELSE IF j = 0
                 THEN [indices |-> swap(ind, i, j), i |-> i, early |-> TRUE]
                 ELSE partition(swap(ind, i, j), sh, cfg, best_split, i, j - 1)

\* Terminates with the depth test off by one: a fault that still splits a
\* node at depth max_depth.
TerminatesPastDepth(node, cfg, current_depth) ==
    (node.count <= cfg.max_shapes_per_node) \/ (current_depth > cfg.max_depth)

\* Terminates with the leaf cap off by one: a fault that stops one primitive
\* above max_shapes_per_node.
TerminatesAboveCap(node, cfg, current_depth) ==
    (node.count <= cfg.max_shapes_per_node + 1) \/ (current_depth >= cfg.max_depth)

\* The termination criteria of subdivide.
Terminates(node, cfg, current_depth) ==
    (node.count <= cfg.max_shapes_per_node) \/ (current_depth >= cfg.max_depth)

\* leaf_cost, times node_surface_area.
leaf_cost(node, cfg) == node.count * cfg.intersect_cost * surface_area(node.aabb)

\* NotBeneficial with a strict comparison: a fault that splits when the best
\* cost equals the leaf cost.
NotBeneficialStrict(best_split, node, cfg) == best_split.cost > leaf_cost(node, cfg)

\* "If splitting is not beneficial, create a leaf"
NotBeneficial(best_split, node, cfg) == best_split.cost >= leaf_cost(node, cfg)

\* "Fallback to prevent degenerate splits"
Degenerate(left_count, count) == (left_count = 0) \/ (left_count = count)

\* link_children with the parent pointing one node too far, at its right
\* child: a fault that leaves the left child without a parent.
link_children_off_by_one(ns, index, left_child_index, right_child_index, i, left_count) ==
    [ns EXCEPT
       ![left_child_index].left_child = ns[index].left_child,
       ![left_child_index].count = left_count,
       ![right_child_index].left_child = i,
       ![right_child_index].count = ns[index].count - left_count,
       ![index].left_child = right_child_index,
       ![index].count = 0]

\* link_children with the right child starting one position early: a fault
\* that makes the two ranges share a position and drops the parent's last.
link_children_overlapping(ns, index, left_child_index, right_child_index, i, left_count) ==
    [ns EXCEPT
       ![left_child_index].left_child = ns[index].left_child,
       ![left_child_index].count = left_count,
       ![right_child_index].left_child = i - 1,
       ![right_child_index].count = ns[index].count - left_count,
       ![index].left_child = left_child_index,
       ![index].count = 0]

\* link_children with the left child keeping every primitive of its parent:
\* a fault that recurses on a child no smaller than the node it came from.
link_children_whole_left(ns, index, left_child_index, right_child_index, i, left_count) ==
    [ns EXCEPT
       ![left_child_index].left_child = ns[index].left_child,
       ![left_child_index].count = ns[index].count,
       ![right_child_index].left_child = i,
       ![right_child_index].count = ns[index].count - left_count,
       ![index].left_child = left_child_index,
       ![index].count = 0]

\* "Create child nodes": the ranges of the two children and the mark of an
\* internal node on their parent; i is where the partition loop stopped.
link_children(ns, index, left_child_index, right_child_index, i, left_count) ==
    [ns EXCEPT
       ![left_child_index].left_child = ns[index].left_child,
       ![left_child_index].count = left_count,
       ![right_child_index].left_child = i,
       ![right_child_index].count = ns[index].count - left_count,
       ![index].left_child = left_child_index,
       ![index].count = 0]

\* One invocation of BvhBuilder::subdivide up to its recursive calls: the
\* builder's fields afterwards and the return statement it reached ("split"
\* when it goes on to recurse into the two children, "index_out_of_bounds"
\* when writing a child would index past the node vector, which panics).
subdivide(ns, ind, used, sh, cfg, index, current_depth) ==
    LET node == ns[index]
        leaf(at, newind) == [at |-> at, nodes |-> ns, indices |-> newind, nodes_used |-> used]
    IN  IF Terminates(node, cfg, current_depth) THEN leaf("termination", ind)
        ELSE
        LET found == find_best_split(ns, ind, sh, cfg, index)
        IN  IF ~found.some THEN leaf("no_split", ind)
            ELSE
            LET best_split == found.value
            IN  IF NotBeneficial(best_split, node, cfg) THEN leaf("not_beneficial", ind)
                ELSE
                LET p == partition(ind, sh, cfg, best_split,
                                   node.left_child, node.left_child + node.count - 1)
                    left_count == p.i - node.left_child
                IN  IF p.early THEN leaf("partition_exit", p.indices)
                    ELSE IF Degenerate(left_count, node.count) THEN leaf("degenerate", p.indices)
                    ELSE
                    LET left_child_index == used
                        right_child_index == used + 1
                    IN  IF right_child_index >= VecLen(ns)
                        THEN leaf("index_out_of_bounds", p.indices)
                        ELSE
                    LET linked == link_children(ns, index, left_child_index, right_child_index,
                                                p.i, left_count)
                        bounded == update_bounds(update_bounds(linked, p.indices, sh, left_child_index),
                                                 p.indices, sh, right_child_index)
                    IN  [at |-> "split", nodes |-> bounded, indices |-> p.indices,
                         nodes_used |-> used + 2]

(***************************************************************************)
(* Bvh traversal                                                           *)
(***************************************************************************)
RECURSIVE LeafClosest(_, _, _, _, _, _, _)
\* The leaf loop of intersect_recursive from the i-th primitive on.
LeafClosest(node, ind, ray, sh, i, closest_hit, closest_distance) ==
    IF i >= node.count THEN closest_hit
    ELSE
        LET shape_index == ind[node.left_child + i]
            hit == intersect(sh[shape_index], ray)
        IN  IF hit.some /\ (hit.value.distance < closest_distance)
            THEN LeafClosest(node, ind, ray, sh, i + 1,
                             Some(<<shape_index, hit.value>>), hit.value.distance)
            ELSE LeafClosest(node, ind, ray, sh, i + 1, closest_hit, closest_distance)

\* "Return the closest hit" of two children's results.
CloserOf(left_hit, right_hit) ==
    IF left_hit.some /\ right_hit.some
    THEN IF left_hit.value[2].distance <= right_hit.value[2].distance
         THEN left_hit ELSE right_hit
    ELSE IF left_hit.some THEN left_hit
    ELSE IF right_hit.some THEN right_hit
    ELSE None

RECURSIVE intersect_recursive(_, _, _, _, _)
\* Bvh::intersect_recursive
intersect_recursive(ns, ind, ray, sh, node_index) ==
    IF node_index >= VecLen(ns) THEN None
    ELSE
        LET node == ns[node_index]
        IN  IF ~AabbIntersectAny(node.aabb, ray) THEN None
            ELSE IF node.count > 0
                 THEN LeafClosest(node, ind, ray, sh, 0, None, MaxValue)
                 ELSE CloserOf(intersect_recursive(ns, ind, ray, sh, node.left_child),
                               intersect_recursive(ns, ind, ray, sh, node.left_child + 1))

\* Bvh::intersect
BvhIntersect(ns, ind, ray, sh) == intersect_recursive(ns, ind, ray, sh, 0)

RECURSIVE LeafAny(_, _, _, _, _, _)
\* The leaf loop of intersect_any_recursive from the i-th primitive on.
LeafAny(node, ind, ray, sh, max_distance, i) ==
    IF i >= node.count THEN FALSE
    ELSE
        LET hit == intersect(sh[ind[node.left_child + i]], ray)
        IN  IF hit.some /\ (hit.value.distance <= max_distance) THEN TRUE
            ELSE LeafAny(node, ind, ray, sh, max_distance, i + 1)

\* Pruned with the comparison turned round: a fault that prunes the boxes
\* that are near enough instead of those that are too far.
PrunedNear(box, ray, max_distance) ==
    LET distance == AabbIntersectDistance(box, ray)
    IN  IF distance.some THEN distance.value < max_distance ELSE TRUE

\* The pruning test of intersect_any_recursive on the node's box.
Pruned(box, ray, max_distance) ==
    LET distance == AabbIntersectDistance(box, ray)
    IN  IF distance.some THEN distance.value > max_distance ELSE TRUE

RECURSIVE intersect_any_recursive(_, _, _, _, _, _)
\* Bvh::intersect_any_recursive
intersect_any_recursive(ns, ind, ray, sh, node_index, max_distance) ==
    IF node_index >= VecLen(ns) THEN FALSE
    ELSE
        LET node == ns[node_index]
        IN  IF Pruned(node.aabb, ray, max_distance) THEN FALSE
            ELSE IF node.count > 0
                 THEN LeafAny(node, ind, ray, sh, max_distance, 0)
                 ELSE intersect_any_recursive(ns, ind, ray, sh, node.left_child, max_distance)
                      \/ intersect_any_recursive(ns, ind, ray, sh, node.left_child + 1, max_distance)

\* Bvh::intersect_any
BvhIntersectAny(ns, ind, ray, sh, max_distance) ==
    intersect_any_recursive(ns, ind, ray, sh, 0, max_distance)

\* <Mesh as Traceable>::intersect: the hit carries the index the Bvh returned.
MeshIntersect(ns, ind, ray, sh) ==
    LET opt == BvhIntersect(ns, ind, ray, sh)
    IN  IF opt.some THEN Some([opt.value[2] EXCEPT !.index = opt.value[1]]) ELSE None

(***************************************************************************)
(* The traversal one invocation at a time.  A query in progress is the     *)
(* caller's own data: the ray, the bound, the pending invocations of the   *)
(* recursive helper (innermost first) with their locals, and the value the *)
(* last finished invocation returned.  Every read of the Bvh's nodes and   *)
(* indices and of the primitives is a read of the shared structure at the  *)
(* moment of the step.                                                     *)
(***************************************************************************)
\* An invocation of intersect_recursive / intersect_any_recursive on a node.
ReaderFrame(node_index) ==
    [node_index |-> node_index, at |-> "call", right_child_index |-> 0, left_hit |-> None]

\* Bvh::intersect / Bvh::intersect_any: the call of the helper on node 0.
ReaderEnter(op, r, max_distance) ==
    [op |-> op, ray |-> Some(r), max_distance |-> max_distance,
     stack |-> <<ReaderFrame(0)>>, ret |-> None]

\* "return": the innermost invocation ends with a value.
ReaderReturn(rd, value) == [rd EXCEPT !.stack = Tail(rd.stack), !.ret = value]

\* The recursive call on a child, the caller waiting at the given place.
ReaderDescend(rd, child, waiting) ==
    [rd EXCEPT !.stack = <<ReaderFrame(child), waiting>> \o Tail(rd.stack)]

\* intersect_recursive / intersect_any_recursive from entry to the first
\* recursive call or to a return.
ReaderVisit(rd, ns, ind, sh) ==
    LET f == Head(rd.stack)
        r == rd.ray.value
    IN  IF f.node_index >= VecLen(ns)
        THEN ReaderReturn(rd, IF rd.op = "intersect" THEN None ELSE FALSE)
        ELSE IF rd.op = "intersect"
        THEN IF ~AabbIntersectAny(ns[f.node_index].aabb, r) THEN ReaderReturn(rd, None)
             ELSE IF ns[f.node_index].count > 0
             THEN ReaderReturn(rd, LeafClosest(ns[f.node_index], ind, r, sh, 0, None, MaxValue))
             ELSE ReaderDescend(rd, ns[f.node_index].left_child,
                                [f EXCEPT !.at = "left",
                                          !.right_child_index = ns[f.node_index].left_child + 1])
        ELSE IF Pruned(ns[f.node_index].aabb, r, rd.max_distance) THEN ReaderReturn(rd, FALSE)
             ELSE IF ns[f.node_index].count > 0
             THEN ReaderReturn(rd, LeafAny(ns[f.node_index], ind, r, sh, rd.max_distance, 0))
             ELSE ReaderDescend(rd, ns[f.node_index].left_child,
                                [f EXCEPT !.at = "left",
                                          !.right_child_index = ns[f.node_index].left_child + 1])

\* The call on the left child has returned: intersect_recursive keeps
\* left_hit and calls on the right child; intersect_any_recursive returns
\* true at once when the left child found a hit ("||" short-circuits).
ReaderAfterLeft(rd) ==
    LET f == Head(rd.stack)
    IN  IF (rd.op = "intersect_any") /\ rd.ret
        THEN ReaderReturn(rd, TRUE)
        ELSE ReaderDescend(rd, f.right_child_index,
                           [f EXCEPT !.at = "right",
                                     !.left_hit = IF rd.op = "intersect" THEN rd.ret ELSE None])

\* ReaderAfterRight answering with the right child's result alone: a fault
\* that forgets the hit found under the left child.
ReaderAfterRightOnly(rd) == ReaderReturn(rd, rd.ret)

\* The call on the right child has returned: "Return the closest hit", or
\* the right operand of "||".
ReaderAfterRight(rd) ==
    IF rd.op = "intersect"
    THEN ReaderReturn(rd, CloserOf(Head(rd.stack).left_hit, rd.ret))
    ELSE ReaderReturn(rd, rd.ret)

(***************************************************************************)
(* Instance: a mesh under a transformation.  A Matrix4 is affine, kept as  *)
(* its upper 3x3 block (linear, by rows) and its translation column; the   *)
(* bottom row is (0, 0, 0, 1).  The matrices drawn by Init have            *)
(* determinant 0, 1 or -1 and integer entries, so an inverse has integer   *)
(* entries, and the invertible ones map an axis to an axis, so a           *)
(* transformed unit axis vector is again one.                              *)
(***************************************************************************)
Matrix4(linear, translation) == [linear |-> linear, translation |-> translation]

\* The 3x3 block with rows r0, r1, r2.
Rows(r0, r1, r2) == (0 :> r0) @@ (1 :> r1) @@ (2 :> r2)

\* Matrix3 * Vector3
MulVec(m, v) == [i \in Axes |-> Dot(m[i], v)]

\* Matrix3::transpose
Transpose(m) == [i \in Axes |-> [j \in Axes |-> m[j][i]]]

\* Matrix4::transform_point
transform_point(m, p) == Add(MulVec(m.linear, p), m.translation)

\* Matrix4::transform_vector
transform_vector(m, v) == MulVec(m.linear, v)

\* The determinant of the 3x3 block, which is that of the affine Matrix4.
Determinant(m) == Dot(m[0], Cross(m[1], m[2]))

\* The adjugate of the 3x3 block: its columns are the cross products of
\* the rows.
Adjugate(m) == Transpose(Rows(Cross(m[1], m[2]), Cross(m[2], m[0]), Cross(m[0], m[1])))

\* Matrix4::try_inverse answering for a singular matrix as well: a fault
\* that leaves the determinant unchecked.
try_inverse_unchecked(m) ==
    LET det == Determinant(m.linear)
        inverse == [i \in Axes |-> [j \in Axes |-> Adjugate(m.linear)[i][j] * det]]
    IN  Some(Matrix4(inverse, [i \in Axes |-> -MulVec(inverse, m.translation)[i]]))

\* Matrix4::try_inverse: adjugate over determinant, the determinant being
\* 1 or -1 where it is not 0.
try_inverse(m) ==
    LET det == Determinant(m.linear)
        inverse == [i \in Axes |-> [j \in Axes |-> Adjugate(m.linear)[i][j] * det]]
    IN  IF det = 0 THEN None
        ELSE Some(Matrix4(inverse, [i \in Axes |-> -MulVec(inverse, m.translation)[i]]))

\* Unit::new_normalize of a vector along an axis.
Normalize(v) == [i \in Axes |-> Sign(v[i])]

\* The eight corners of a box, as Aabb::transform visits them.
CornersOf(box) ==
    {Pt(x, y, z) : x \in {box.mins[0], box.maxs[0]}, y \in {box.mins[1], box.maxs[1]},
                   z \in {box.mins[2], box.maxs[2]}}

\* The least or greatest i-th coordinate of a set of points.
Least(ps, i) == CHOOSE x \in {p[i] : p \in ps} : \A p \in ps : x <= p[i]

Greatest(ps, i) == CHOOSE x \in {p[i] : p \in ps} : \A p \in ps : x >= p[i]

\* Aabb::transform
AabbTransform(box, m) ==
    LET transformed == {transform_point(m, c) : c \in CornersOf(box)}
    IN  AabbNew([i \in Axes |-> Least(transformed, i)],
                [i \in Axes |-> Greatest(transformed, i)])

RECURSIVE MeshAabbFrom(_, _, _)
\* The loop of <Mesh as Bounded>::aabb from the i-th triangle on.
MeshAabbFrom(sh, i, acc) ==
    IF i >= VecLen(sh) THEN acc
    ELSE MeshAabbFrom(sh, i + 1, merge(acc, aabb(sh[i])))

\* <Mesh as Bounded>::aabb
MeshAabb(sh) == MeshAabbFrom(sh, 1, aabb(sh[0]))

\* Instance::new
InstanceNew(sh, transform) ==
    LET inverse == try_inverse(transform)
    IN  IF ~inverse.some THEN Err("NonInvertibleMatrix")
        ELSE Ok([world_to_object |-> inverse.value,
                 object_to_world |-> transform,
                 world_aabb |-> AabbTransform(MeshAabb(sh), transform),
                 normal_transform |-> Transpose(inverse.value.linear)])

\* transform_ray_to_object_space through object_to_world: a fault that
\* applies the transformation instead of its inverse.
transform_ray_forward(inst, r) ==
    RayNew(transform_point(inst.object_to_world, r.origin),
           Normalize(transform_vector(inst.object_to_world, r.direction)))

\* Instance::transform_ray_to_object_space
transform_ray_to_object_space(inst, r) ==
    RayNew(transform_point(inst.world_to_object, r.origin),
           Normalize(transform_vector(inst.world_to_object, r.direction)))

\* Instance::transform_hit_to_world_space
transform_hit_to_world_space(inst, hit, world_ray, object_ray) ==
    LET object_hit_point == PointAt(object_ray, hit.distance)
        world_hit_point == transform_point(inst.object_to_world, object_hit_point)
        to_hit == Sub(world_hit_point, world_ray.origin)
    IN  [hit EXCEPT
           !.normal = Normalize(MulVec(inst.normal_transform, hit.normal)),
           !.interpolated_normal =
               Normalize(MulVec(inst.normal_transform, hit.interpolated_normal)),
           !.distance = Dot(to_hit, world_ray.direction)]

\* <Instance as Traceable>::intersect
InstanceIntersect(inst, ns, ind, r, sh) ==
    LET object_ray == transform_ray_to_object_space(inst, r)
        hit == MeshIntersect(ns, ind, object_ray, sh)
    IN  IF hit.some
        THEN Some(transform_hit_to_world_space(inst, hit.value, r, object_ray))
        ELSE None

(***************************************************************************)
(* State                                                                   *)
(***************************************************************************)
VARIABLES
    pc,          \* where the caller is: "start", "configured", "build",
                 \* "subdivide", "built", "failed" (an Err was returned) or
                 \* "panicked"
    args,        \* the five arguments given to BvhConfig::new
    config,      \* the BvhConfig, once constructed
    error,       \* the error returned, "none" while there is none
    shapes,      \* the caller's primitive sequence (zero-based)
    indices,     \* BvhBuilder.indices, then Bvh.indices
    nodes,       \* BvhBuilder.nodes, then Bvh.nodes
    nodes_used,  \* BvhBuilder.nodes_used
    stack,       \* the pending invocations of subdivide, innermost first
    ret,         \* the value returned by the last finished subdivide
    returned,    \* for each subdivided node, the return statement its invocation
                 \* of subdivide reached and the current_depth of that invocation
    depth,       \* Bvh.depth
    ray,         \* the ray of the current query (an Option)
    result,      \* the last query and what it returned
    instance,    \* the Instance made of the built mesh (an Option)
    readers      \* the queries in progress on the built Bvh, one per caller

vars == <<pc, args, config, error, shapes, indices, nodes, nodes_used, stack, ret,
          returned, depth, ray, result, instance, readers>>

builder == <<indices, nodes, nodes_used, stack, ret, returned, depth>>

(***************************************************************************)
(* Inputs                                                                  *)
(***************************************************************************)
\* A cube of side 2 standing on the plane z = 0.
CubeAt(x, y) == Box(Pt(x, y, 0), Pt(x + 2, y + 2, 2))

\* A flat box that spans both cubes.
Slab == Box(Pt(0, 0, 0), Pt(6, 6, 2))

\* Plane::xy_plane(0)
GroundPlane == Plane(Pt(0, 0, 0), 2)

BuildShapes == {CubeAt(0, 0), CubeAt(4, 0), Slab}

SceneShapes == BuildShapes \cup {GroundPlane}

\* Every zero-based sequence over U of length at most n.
Layouts(U, n) == UNION {[0 .. (k - 1) -> U] : k \in 0 .. n}

Args(tc, ic, b, m, d) ==
    [traverse_cost : tc, intersect_cost : ic, sah_buckets : b,
     max_shapes_per_node : m, max_depth : d]

BuildArgs ==
    Args({DEFAULT_TRAVERSE_COST}, {DEFAULT_INTERSECT_COST}, {2, DEFAULT_SAH_BUCKETS},
         {3, DEFAULT_MAX_SHAPES_PER_NODE}, {1, DEFAULT_MAX_DEPTH})

SceneArgs ==
    Args({DEFAULT_TRAVERSE_COST}, {DEFAULT_INTERSECT_COST}, {2}, {3}, {DEFAULT_MAX_DEPTH})

ConfigArgs ==
    Args({-4, 0, DEFAULT_TRAVERSE_COST, 8}, {-5, 0, DEFAULT_INTERSECT_COST},
         {0, 1, 2, DEFAULT_SAH_BUCKETS}, {0, 2, 3, DEFAULT_MAX_SHAPES_PER_NODE},
         {0, 1, DEFAULT_MAX_DEPTH})

RayOrigins == {Pt(-2, 1, 1), Pt(1, 1, 1), Pt(1, 1, 4), Pt(LargeValue + 2, 1, 4)}

Directions == {AxisNormal(a, s) : a \in Axes, s \in {-1, 1}}

MaxDistances == {0, 2, MaxValue}

NoQuery == [op |-> "none"]

\* The callers that query one shared Bvh at the same time.
Readers == {1, 2}

\* A caller that has not called a query yet.
Idle == [op |-> "idle", ray |-> None, max_distance |-> 0, stack |-> <<>>, ret |-> None]

InitWith(argset, layouts) ==
    /\ pc = "start"
    /\ args \in argset
    /\ config = None
    /\ error = "none"
    /\ shapes \in layouts
    /\ indices = <<>>
    /\ nodes = <<>>
    /\ nodes_used = 0
    /\ stack = <<>>
    /\ ret = 0
    /\ returned = <<>>
    /\ depth = 0
    /\ ray = None
    /\ result = NoQuery
    /\ instance = None
    /\ readers = [r \in Readers |-> Idle]

Init == InitWith(BuildArgs, Layouts(BuildShapes, MaxPrims))

InitQuery == InitWith(SceneArgs, Layouts(SceneShapes, MaxScenePrims))

InitConfig == InitWith(ConfigArgs, {<<>>})

(***************************************************************************)
(* Construction                                                            *)
(***************************************************************************)
\* BvhConfig::new
ConfigNew ==
    /\ pc = "start"
    /\ LET r == BvhConfigNew(args.traverse_cost, args.intersect_cost, args.sah_buckets,
                             args.max_shapes_per_node, args.max_depth)
       IN  IF r.ok
           THEN /\ config' = Some(r.value)
                /\ pc' = "configured"
                /\ error' = error
           ELSE /\ config' = config
                /\ pc' = "failed"
                /\ error' = r.err
    /\ UNCHANGED <<instance, readers, args, shapes, builder, ray, result>>

\* Scene::new, up to its call of Bvh::new
SceneNew ==
    /\ pc = "configured"
    /\ IF VecLen(shapes) = 0
       THEN pc' = "failed" /\ error' = "EmptyScene"
       ELSE pc' = "build" /\ error' = error
    /\ UNCHANGED <<instance, readers, args, config, shapes, builder, ray, result>>

\* Bvh::new called on the caller's primitives directly, as Mesh::new does
BvhNew ==
    /\ pc = "configured"
    /\ pc' = "build"
    /\ UNCHANGED <<instance, readers, args, config, error, shapes, builder, ray, result>>

\* The length of the node vector allocated by build.
PoolSize(n) == (n * 2) - 1

Frame(index, current_depth) ==
    [index |-> index, current_depth |-> current_depth, at |-> "call", left_depth |-> 0,
     right_child_index |-> 0]

\* BvhBuilder::build, up to its call of subdivide.  With no shape the
\* debug assertion fails; without debug assertions (0 * 2) - 1 wraps and
\* the vec! of usize::MAX nodes panics with a capacity overflow.
Build ==
    /\ pc = "build"
    /\ IF VecLen(shapes) = 0
       THEN /\ pc' = "panicked"
            /\ UNCHANGED builder
       ELSE LET n == VecLen(shapes)
                fresh == [i \in 0 .. (PoolSize(n) - 1) |-> BvhNode(AabbEmpty, 0, 0)]
                rooted == [fresh EXCEPT ![0].left_child = 0, ![0].count = n]
                identity == [i \in 0 .. (n - 1) |-> i]
            IN  /\ indices' = identity
                /\ nodes' = update_bounds(rooted, identity, shapes, 0)
                /\ nodes_used' = 1
                /\ stack' = <<Frame(0, 0)>>
                /\ pc' = "subdivide"
                /\ UNCHANGED <<ret, returned, depth>>
    /\ UNCHANGED <<instance, readers, args, config, error, shapes, ray, result>>

\* One invocation of subdivide, from its entry to its first recursive call
\* or to its return.
Subdivide ==
    /\ pc = "subdivide"
    /\ stack # <<>>
    /\ Head(stack).at = "call"
    /\ \E f \in {Head(stack)} :
       \E r \in {subdivide(nodes, indices, nodes_used, shapes, config.value,
                           f.index, f.current_depth)} :
           /\ nodes' = r.nodes
           /\ indices' = r.indices
           /\ nodes_used' = r.nodes_used
           /\ returned' = (f.index :> [at |-> r.at, current_depth |-> f.current_depth]) @@ returned
           /\ IF r.at = "split"
              THEN /\ stack' = <<Frame(nodes_used, f.current_depth + 1),
                                 [f EXCEPT !.at = "left", !.right_child_index = nodes_used + 1]>>
                               \o Tail(stack)
                   /\ pc' = pc
                   /\ ret' = ret
              ELSE IF r.at = "index_out_of_bounds"
              THEN /\ stack' = stack
                   /\ pc' = "panicked"
                   /\ ret' = ret
              ELSE /\ stack' = Tail(stack)
                   /\ pc' = pc
                   /\ ret' = f.current_depth
    /\ UNCHANGED <<instance, readers, args, config, error, shapes, depth, ray, result>>

\* The left recursive call has returned: keep left_depth, call on the right child.
SubdivideLeftReturn ==
    /\ pc = "subdivide"
    /\ stack # <<>>
    /\ Head(stack).at = "left"
    /\ LET f == Head(stack)
       IN  stack' = <<Frame(f.right_child_index, f.current_depth + 1),
                      [f EXCEPT !.at = "right", !.left_depth = ret]>> \o Tail(stack)
    /\ UNCHANGED <<pc, instance, readers, args, config, error, shapes, indices, nodes, nodes_used, ret, returned,
                   depth, ray, result>>

\* The right recursive call has returned: return left_depth.max(right_depth).
SubdivideRightReturn ==
    /\ pc = "subdivide"
    /\ stack # <<>>
    /\ Head(stack).at = "right"
    /\ ret' = Max(Head(stack).left_depth, ret)
    /\ stack' = Tail(stack)
    /\ UNCHANGED <<pc, instance, readers, args, config, error, shapes, indices, nodes, nodes_used, returned,
                   depth, ray, result>>

\* Vec::truncate
truncate(v, len) == [i \in {k \in DOMAIN v : k < len} |-> v[i]]

\* Bvh::construct_directly
construct_directly(ind, ns, d) ==
    IF VecLen(ind) = 0 THEN Err("EmptyGeometry")
    ELSE IF VecLen(ns) = 0 THEN Err("EmptyNodes")
    ELSE Ok([indices |-> ind, nodes |-> ns, depth |-> d])

\* FinalNodes without the truncation: a fault that keeps the whole pool.
FinalNodesWholePool(ns, used) == ns

\* The node vector build hands to construct_directly.
FinalNodes(ns, used) == truncate(ns, used)

\* BvhBuilder::build, after subdivide has returned
BuildFinish ==
    /\ pc = "subdivide"
    /\ stack = <<>>
    /\ LET r == construct_directly(indices, FinalNodes(nodes, nodes_used), ret)
       IN  IF r.ok
           THEN /\ nodes' = r.value.nodes
                /\ depth' = r.value.depth
                /\ pc' = "built"
                /\ error' = error
           ELSE /\ nodes' = nodes
                /\ depth' = depth
                /\ pc' = "failed"
                /\ error' = r.err
    /\ UNCHANGED <<instance, readers, args, config, shapes, indices, nodes_used, stack, ret, returned, ray, result>>

(***************************************************************************)
(* Queries                                                                 *)
(***************************************************************************)
\* Ray::new.  One ray is cast on each built Bvh; the queries on it may repeat.
CastRay ==
    /\ pc = "built"
    /\ ~ray.some
    /\ \E origin \in RayOrigins, direction \in Directions :
           ray' = Some(RayNew(origin, direction))
    /\ result' = NoQuery
    /\ UNCHANGED <<pc, instance, readers, args, config, error, shapes, builder>>

\* Bvh::intersect
Intersect ==
    /\ pc = "built"
    /\ ray.some
    /\ result' = [op |-> "intersect", value |-> BvhIntersect(nodes, indices, ray.value, shapes)]
    /\ UNCHANGED <<pc, instance, readers, args, config, error, shapes, builder, ray>>

\* Bvh::intersect_any
IntersectAny ==
    /\ pc = "built"
    /\ ray.some
    /\ \E max_distance \in MaxDistances :
           result' = [op |-> "intersect_any", max_distance |-> max_distance,
                      value |-> BvhIntersectAny(nodes, indices, ray.value, shapes, max_distance)]
    /\ UNCHANGED <<pc, instance, readers, args, config, error, shapes, builder, ray>>

\* Mesh::intersect
IntersectMesh ==
    /\ pc = "built"
    /\ ray.some
    /\ result' = [op |-> "mesh_intersect", value |-> MeshIntersect(nodes, indices, ray.value, shapes)]
    /\ UNCHANGED <<pc, instance, readers, args, config, error, shapes, builder, ray>>

(***************************************************************************)
(* Specifications                                                          *)
(***************************************************************************)
NextConfig == ConfigNew

Next ==
    \/ ConfigNew
    \/ SceneNew
    \/ BvhNew
    \/ Build
    \/ Subdivide
    \/ SubdivideLeftReturn
    \/ SubdivideRightReturn
    \/ BuildFinish

NextQuery ==
    \/ Next
    \/ CastRay
    \/ Intersect
    \/ IntersectAny
    \/ IntersectMesh

\* Construction: every configuration of BuildArgs over every layout.
Spec == Init /\ [][Next]_vars

\* Construction of a scene followed by queries on it.
SpecQuery == InitQuery /\ [][NextQuery]_vars

\* BvhConfig::new alone, over valid and invalid arguments.
SpecConfig == InitConfig /\ [][NextConfig]_vars

(***************************************************************************)
(* Properties                                                              *)
(***************************************************************************)
\* The primitives that the ray r hits, tested one by one.
HitBy(r) == {i \in DOMAIN shapes : intersect(shapes[i], r).some}

DistanceOf(i, r) == intersect(shapes[i], r).value.distance

\* The nodes of the tree that are leaves / internal nodes.
Leaves == {n \in DOMAIN nodes : n < nodes_used /\ nodes[n].count > 0}

Internal == {n \in DOMAIN nodes : n < nodes_used /\ nodes[n].count = 0}

\* C1: the closest-hit query equals the brute-force closest hit: it returns
\* absence iff no primitive is hit, and otherwise the index of a primitive
\* that attains the minimum distance over all primitives hit, with that hit.
C1_ClosestHitIsBruteForce ==
    (result.op = "intersect") =>
        LET hit_by == HitBy(ray.value)
            found == result.value
        IN  /\ found.some <=> (hit_by # {})
            /\ found.some =>
                   /\ found.value[1] \in hit_by
                   /\ intersect(shapes[found.value[1]], ray.value) = Some(found.value[2])
                   /\ \A j \in hit_by : found.value[2].distance <= DistanceOf(j, ray.value)

\* C2: the any-hit query with bound d is true iff some primitive is hit at a
\* distance <= d (a hit at exactly d counts).
C2_AnyHitIffWithinDistance ==
    (result.op = "intersect_any") =>
        (result.value <=>
            \E i \in HitBy(ray.value) : DistanceOf(i, ray.value) <= result.max_distance)

\* C3: any-hit is monotone in the bound: when a query with bound d1 was true,
\* the next query of the same ray with a bound d2 >= d1 is true.
C3_AnyHitMonotone ==
    [][((result.op = "intersect_any") /\ (result'.op = "intersect_any")
         /\ (ray' = ray) /\ (result'.max_distance >= result.max_distance)
         /\ result.value)
        => result'.value]_vars

\* C3 witness: on a tree with an internal node, an any-hit query found a hit
\* within a bound smaller than the largest one, while a smaller bound on the
\* same tree would have pruned (the hit is farther than 0).
C3_Witness ==
    /\ pc = "built"
    /\ Internal # {}
    /\ result.op = "intersect_any"
    /\ result.value
    /\ result.max_distance = 2
    /\ ~BvhIntersectAny(nodes, indices, ray.value, shapes, 0)

\* The return statements of subdivide that leave a node a leaf because the
\* split left one side empty: the fallback after the partition loop, the
\* return inside it, and (read widely) the case that every bucket boundary
\* leaves one side empty, so that no candidate exists.
DegenerateReturns == {"degenerate", "partition_exit", "no_split"}

\* The leaves that the builder has finished with.
SettledLeaves == {n \in Leaves : n \in DOMAIN returned}

\* C4 as stated: every leaf holds at most max_shapes_per_node primitives
\* unless it is the fallback of a degenerate split.
C4_LeafCapOrDegenerate ==
    (pc = "built") =>
        \A n \in SettledLeaves :
            \/ nodes[n].count <= config.value.max_shapes_per_node
            \/ returned[n].at \in DegenerateReturns

\* C4 amended: every leaf holds at most max_shapes_per_node primitives
\* unless subdivide stopped at it at depth >= max_depth, or found no split
\* candidate, or found the best split not cheaper than the leaf, or the
\* partition left one side empty.
C4_LeafCapOrStopped ==
    (pc = "built") =>
        /\ SettledLeaves = Leaves
        /\ \A n \in Leaves :
            \/ nodes[n].count <= config.value.max_shapes_per_node
            \/ /\ returned[n].at = "termination"
               /\ returned[n].current_depth >= config.value.max_depth
            \/ returned[n].at \in {"no_split", "not_beneficial", "partition_exit", "degenerate"}

\* C4 witness: a built tree with an internal node, a leaf within the cap and
\* a leaf above the cap that was stopped by the depth limit.
C4_Witness ==
    /\ pc = "built"
    /\ Internal # {}
    /\ \E n \in Leaves : nodes[n].count <= config.value.max_shapes_per_node
    /\ \E n \in Leaves :
           /\ nodes[n].count > config.value.max_shapes_per_node
           /\ returned[n].at = "termination"

\* C5: an invocation of subdivide makes its node internal only if the best
\* candidate costs strictly less than count * intersect_cost; when no
\* candidate exists or the best cost is >= count * intersect_cost, the node
\* keeps its count and no node is allocated.  (Costs times the node's
\* surface area, which is positive when a candidate exists.)
C5_SahDescent ==
    [][((pc = "subdivide") /\ (stack # <<>>) /\ (Head(stack).at = "call"))
        => LET index == Head(stack).index
               node == nodes[index]
               best == find_best_split(nodes, indices, shapes, config.value, index)
               leaf == node.count * config.value.intersect_cost * surface_area(node.aabb)
           IN  /\ (nodes'[index].count = 0) => (best.some /\ (best.value.cost < leaf))
               /\ ((~best.some) \/ (best.value.cost >= leaf))
                      => /\ nodes_used' = nodes_used
                         /\ nodes'[index].count = node.count
                         /\ nodes'[index].left_child = node.left_child]_vars

\* C5 witness: a node above the leaf cap and below the depth limit was left
\* a leaf because its best split costs exactly the leaf cost.
C5_Witness ==
    \E n \in DOMAIN returned :
        /\ returned[n].at = "not_beneficial"
        /\ LET best == find_best_split(nodes, indices, shapes, config.value, n)
           IN  best.value.cost
                   = nodes[n].count * config.value.intersect_cost * surface_area(nodes[n].aabb)

\* C6: while the builder runs, nodes_used never exceeds the pool of 2N-1
\* nodes and no child is written past it; the built Bvh has exactly
\* nodes_used <= 2N-1 nodes, numbered from 0, and node 0 is nobody's child.
C6_NodePool ==
    LET n == VecLen(shapes)
    IN  /\ (pc = "subdivide") =>
               /\ VecLen(nodes) = (2 * n) - 1
               /\ 1 <= nodes_used /\ nodes_used <= VecLen(nodes)
        /\ (pc = "panicked") => (n = 0)
        /\ (pc = "built") =>
               /\ DOMAIN nodes = 0 .. (nodes_used - 1)
               /\ 1 <= nodes_used /\ nodes_used <= (2 * n) - 1
               /\ \A p \in Internal : nodes[p].left_child > 0

\* C6 witness: a built tree of five nodes over five primitives, cut down
\* from the pool of nine.
C6_Witness ==
    /\ pc = "built"
    /\ VecLen(shapes) = 5
    /\ nodes_used = 5
    /\ VecLen(nodes) = 5

\* The internal nodes that have c as a child.
ParentsOf(c) == {p \in Internal : (nodes[p].left_child = c) \/ (nodes[p].left_child + 1 = c)}

\* C7: the built node array is a binary tree rooted at node 0: a leaf's
\* range lies inside the index array, an internal node's two children are
\* valid node indices above its own, the root has no parent and every other
\* node has exactly one.
C7_TreeShape ==
    (pc = "built") =>
        /\ \A n \in DOMAIN nodes :
               IF nodes[n].count > 0
               THEN nodes[n].left_child + nodes[n].count <= VecLen(indices)
               ELSE /\ nodes[n].left_child > n
                    /\ nodes[n].left_child + 1 < VecLen(nodes)
        /\ ParentsOf(0) = {}
        /\ \A c \in DOMAIN nodes : (c # 0) => (Cardinality(ParentsOf(c)) = 1)

\* C7 witness: a built tree of depth 2, in which a child of the root is
\* itself internal.
C7_Witness ==
    /\ pc = "built"
    /\ depth = 2
    /\ \E p \in Internal : p # 0

C10_EmptyInputIsAnError ==
    ((VecLen(shapes) = 0) /\ (pc \notin {"start", "configured", "build"})) =>
        /\ pc = "failed"
        /\ error \in {"EmptyScene", "EmptyGeometry"}

(***************************************************************************)
(* Aabb on its own: construction, merge and the two slab tests, each       *)
(* applied once to arguments drawn by Init.  In the slab tests a           *)
(* direction may run along a diagonal (components in {-1, 0, 1}); its      *)
(* non-zero components then share one magnitude m, and every distance is   *)
(* kept in units of 1/m, a positive scale under which the comparisons of   *)
(* the slab loop and the point origin + t * direction are unchanged.       *)
(***************************************************************************)
\* mins[i] <= maxs[i] on all axes, the condition asserted by Aabb::new.
ValidBounds(mins, maxs) == \A i \in Axes : mins[i] <= maxs[i]

\* Aabb::new under both builds: debug_assert! panics on inverted bounds
\* when debug assertions are compiled in and is absent otherwise.
AabbNewOutcomes(mins, maxs) ==
    IF ValidBounds(mins, maxs)
    THEN {[panic |-> FALSE, value |-> AabbNew(mins, maxs)]}
    ELSE {[panic |-> TRUE, value |-> AabbNew(mins, maxs)],
          [panic |-> FALSE, value |-> AabbNew(mins, maxs)]}

Corners == {Pt(x, y, z) : x \in {0, 2, 4}, y \in {0, 2}, z \in {0, 2}}

ValidBoxes ==
    {AabbNew(c[1], c[2]) : c \in {d \in Corners \X Corners : ValidBounds(d[1], d[2])}}

SlabBoxes == {AabbNew(Pt(0, 0, 0), Pt(2, 2, 2)), AabbNew(Pt(0, 0, 0), Pt(4, 2, 2)),
              AabbNew(Pt(0, 0, 0), Pt(2, 0, 2))}

SlabOrigins == {Pt(x, y, z) : x \in {-1, 0, 1, 2, 3}, y \in {-1, 0, 1, 3}, z \in {-1, 1, 2}}

AllDirections ==
    {d \in [Axes -> {-1, 0, 1}] : \E i \in Axes : d[i] # 0}

AabbArgs ==
    [op : {"new"}, mins : Corners, maxs : Corners]
    \cup [op : {"merge"}, a : ValidBoxes \cup {AabbEmpty}, b : ValidBoxes \cup {AabbEmpty}]
    \cup [op : {"slab"}, box : SlabBoxes, origin : SlabOrigins, direction : AllDirections]

InitAabb == InitWith(AabbArgs, {<<>>})

\* Aabb::new
AabbNewCall ==
    /\ pc = "start"
    /\ args.op = "new"
    /\ \E o \in AabbNewOutcomes(args.mins, args.maxs) :
           IF o.panic
           THEN pc' = "panicked" /\ result' = result
           ELSE pc' = "done" /\ result' = [op |-> "new", value |-> Ok(o.value)]
    /\ UNCHANGED <<instance, readers, args, config, error, shapes, builder, ray>>

\* Aabb::merge, which ends in Aabb::new
AabbMergeCall ==
    /\ pc = "start"
    /\ args.op = "merge"
    /\ LET m == merge(args.a, args.b)
       IN  \E o \in AabbNewOutcomes(m.mins, m.maxs) :
               IF o.panic
               THEN pc' = "panicked" /\ result' = result
               ELSE pc' = "done" /\ result' = [op |-> "merge", value |-> o.value]
    /\ UNCHANGED <<instance, readers, args, config, error, shapes, builder, ray>>

\* Ray::new on the arguments of a slab test
AabbCastRay ==
    /\ pc = "start"
    /\ args.op = "slab"
    /\ ray' = Some(RayNew(args.origin, args.direction))
    /\ pc' = "cast"
    /\ UNCHANGED <<instance, readers, args, config, error, shapes, builder, result>>

\* Aabb::intersect_any
AabbIntersectAnyCall ==
    /\ pc = "cast"
    /\ args.op = "slab"
    /\ result' = [op |-> "intersect_any", value |-> AabbIntersectAny(args.box, ray.value)]
    /\ UNCHANGED <<pc, instance, readers, args, config, error, shapes, builder, ray>>

\* Aabb::intersect_distance
AabbIntersectDistanceCall ==
    /\ pc = "cast"
    /\ args.op = "slab"
    /\ result' = [op |-> "intersect_distance",
                  value |-> AabbIntersectDistance(args.box, ray.value)]
    /\ UNCHANGED <<pc, instance, readers, args, config, error, shapes, builder, ray>>

NextAabb ==
    \/ AabbNewCall
    \/ AabbMergeCall
    \/ AabbCastRay
    \/ AabbIntersectAnyCall
    \/ AabbIntersectDistanceCall

\* Aabb::new, Aabb::merge and the slab tests applied to drawn arguments.
SpecAabb == InitAabb /\ [][NextAabb]_vars

\* C11: Aabb::merge is commutative and idempotent, has Aabb::empty() as
\* identity on both sides, and for two valid boxes gives the componentwise
\* minimum of the mins and maximum of the maxs, itself a valid box.
C11_MergeAlgebra ==
    (result.op = "merge") =>
        LET a == args.a
            b == args.b
            valid(x) == ValidBounds(x.mins, x.maxs)
        IN  /\ (valid(a) /\ valid(b)) =>
                   /\ result.value = merge(b, a)
                   /\ \A i \in Axes :
                          /\ result.value.mins[i] = Min(a.mins[i], b.mins[i])
                          /\ result.value.maxs[i] = Max(a.maxs[i], b.maxs[i])
                   /\ valid(result.value)
            /\ (valid(a) /\ (a = b)) => (result.value = a)
            /\ (valid(b) /\ (a = AabbEmpty)) => (result.value = b)
            /\ (valid(a) /\ (b = AabbEmpty)) => (result.value = a)

\* C11 witness: two valid boxes, neither containing the other, have been
\* merged into a box that is neither of them.
C11_Witness ==
    /\ result.op = "merge"
    /\ ValidBounds(args.a.mins, args.a.maxs)
    /\ ValidBounds(args.b.mins, args.b.maxs)
    /\ result.value # args.a
    /\ result.value # args.b

\* C12: the two forms of the slab test agree on every valid box and ray:
\* intersect_distance returns Some exactly when intersect_any returns true.
C12_SlabFormsAgree ==
    /\ (result.op = "intersect_distance") =>
           (result.value.some <=> AabbIntersectAny(args.box, ray.value))
    /\ (result.op = "intersect_any") =>
           (result.value <=> AabbIntersectDistance(args.box, ray.value).some)

\* The ray origin lies strictly inside the box.
StrictlyInside(box, p) == \A i \in Axes : (box.mins[i] < p[i]) /\ (p[i] < box.maxs[i])

\* The point lies in the closed box.
Within(box, p) == \A i \in Axes : (box.mins[i] <= p[i]) /\ (p[i] <= box.maxs[i])

\* The point lies on a face of the box.
OnBoundary(box, p) ==
    /\ Within(box, p)
    /\ \E i \in Axes : (p[i] = box.mins[i]) \/ (p[i] = box.maxs[i])

\* C12 witness: intersect_distance has answered Some for a ray that starts
\* strictly inside the box and runs parallel to one of its slabs.
C12_Witness ==
    /\ result.op = "intersect_distance"
    /\ result.value.some
    /\ StrictlyInside(args.box, args.origin)
    /\ \E i \in Axes : args.direction[i] = 0

\* C13: for a ray that hits the box, intersect_distance returns a t with
\* origin + t * direction on the box boundary: the entry distance (no
\* earlier point of the ray is in the box) when the origin is not strictly
\* inside, the exit distance (t > 0) when it is.
C13_DistanceOnBoundary ==
    ((result.op = "intersect_distance") /\ result.value.some) =>
        LET t == result.value.value
        IN  /\ t >= 0
            /\ OnBoundary(args.box, PointAt(ray.value, t))
            /\ StrictlyInside(args.box, args.origin) => (t > 0)
            /\ (~StrictlyInside(args.box, args.origin)) =>
                   \A u \in 0 .. (t - 1) : ~Within(args.box, PointAt(ray.value, u))

\* C19: Aabb::new fails with a GeometryError (InvalidAabbBounds) whenever
\* mins[i] > maxs[i] on some axis, so a box obtained through new or merge
\* is valid unless it is the empty() sentinel.
C19_InvertedBoundsRejected ==
    /\ ((args.op = "new") /\ ~ValidBounds(args.mins, args.maxs) /\ (pc # "start")) =>
           /\ pc = "failed"
           /\ error = "InvalidAabbBounds"
    /\ (result.op = "new") =>
           /\ result.value.ok
           /\ ValidBounds(result.value.value.mins, result.value.value.maxs)
    /\ (result.op = "merge") =>
           \/ ValidBounds(result.value.mins, result.value.maxs)
           \/ result.value = AabbEmpty

(***************************************************************************)
(* The kernels on their own: Sphere::new and the intersect of Sphere,      *)
(* Triangle and Plane, each applied once to arguments drawn by Init.       *)
(***************************************************************************)
\* A right triangle with legs of 4 in the plane z = 0, and the degenerate
\* triangles: three distinct colinear vertices, two coincident vertices
\* (first pair, last pair), three coincident vertices.
TriangleVertices ==
    {<<a, b, c>> : a \in {Pt(0, 0, 0)}, b \in {Pt(4, 0, 0)}, c \in {Pt(0, 4, 0)}}
    \cup {<<Pt(0, 0, 0), Pt(2, 0, 0), Pt(4, 0, 0)>>,
          <<Pt(0, 0, 0), Pt(0, 0, 0), Pt(4, 0, 0)>>,
          <<Pt(0, 0, 0), Pt(4, 0, 0), Pt(4, 0, 0)>>,
          <<Pt(0, 0, 0), Pt(0, 0, 0), Pt(0, 0, 0)>>,
          <<Pt(1, 1, 0), Pt(1, 1, 0), Pt(1, 1, 0)>>}

\* The zero-based array [Point3<T>; 3] of a vertex triple.
Vertices(t) == (0 :> t[1]) @@ (1 :> t[2]) @@ (2 :> t[3])

TriangleOrigins == {Pt(x, y, z) : x \in {-1, 0, 1, 3}, y \in {0, 1, 3}, z \in {-2, 0, 2}}

SphereRadii == {0, 1, 5}

SphereOrigins == {Pt(x, y, z) : x \in {0, 1, 3, 4, 5, 6}, y \in {0}, z \in {0, 8}}

\* The sphere queries whose discriminant is negative or a perfect square.
SphereQueries ==
    {q \in [op : {"sphere"}, center : {Pt(0, 0, 0)}, radius : SphereRadii,
            origin : SphereOrigins, direction : Directions] :
        LET d == Discriminant(Sphere(q.center, q.radius), RayNew(q.origin, q.direction))
        IN  (d < 0) \/ IsSquare(d)}

KernelArgs ==
    [op : {"sphere_new"}, center : {Pt(0, 0, 0)}, radius : SphereRadii \cup {-1, -5}]
    \cup SphereQueries
    \cup [op : {"triangle"}, vertices : TriangleVertices, normal : {AxisNormal(2, 1)},
          origin : TriangleOrigins, direction : Directions]
    \cup [op : {"plane"}, point : {Pt(0, 0, 0)}, axis : Axes,
          origin : TriangleOrigins, direction : Directions]

InitKernel == InitWith(KernelArgs, {<<>>})

\* Sphere::new
SphereNewCall ==
    /\ pc = "start"
    /\ args.op = "sphere_new"
    /\ \E o \in SphereNewOutcomes(args.center, args.radius) :
           IF o.panic
           THEN pc' = "panicked" /\ result' = result
           ELSE pc' = "done" /\ result' = [op |-> "sphere_new", value |-> Ok(o.value)]
    /\ UNCHANGED <<instance, readers, args, config, error, shapes, builder, ray>>

\* Ray::new on the arguments of a kernel query
KernelCastRay ==
    /\ pc = "start"
    /\ args.op \in {"sphere", "triangle", "plane"}
    /\ ray' = Some(RayNew(args.origin, args.direction))
    /\ pc' = "cast"
    /\ UNCHANGED <<instance, readers, args, config, error, shapes, builder, result>>

\* <Sphere as Traceable>::intersect
SphereIntersectCall ==
    /\ pc = "cast"
    /\ args.op = "sphere"
    /\ result' = [op |-> "sphere_intersect",
                  value |-> SphereIntersect(Sphere(args.center, args.radius), ray.value)]
    /\ pc' = "done"
    /\ UNCHANGED <<instance, readers, args, config, error, shapes, builder, ray>>

\* <Triangle as Traceable>::intersect
TriangleIntersectCall ==
    /\ pc = "cast"
    /\ args.op = "triangle"
    /\ result' = [op |-> "triangle_intersect",
                  value |-> TriangleIntersect(TriangleNew(Vertices(args.vertices), args.normal),
                                              ray.value)]
    /\ pc' = "done"
    /\ UNCHANGED <<instance, readers, args, config, error, shapes, builder, ray>>

\* <Plane as Traceable>::intersect
PlaneIntersectCall ==
    /\ pc = "cast"
    /\ args.op = "plane"
    /\ result' = [op |-> "plane_intersect",
                  value |-> PlaneIntersect(Plane(args.point, args.axis), ray.value)]
    /\ pc' = "done"
    /\ UNCHANGED <<instance, readers, args, config, error, shapes, builder, ray>>

NextKernel ==
    \/ SphereNewCall
    \/ KernelCastRay
    \/ SphereIntersectCall
    \/ TriangleIntersectCall
    \/ PlaneIntersectCall

\* Sphere::new and the kernels applied to drawn arguments.
SpecKernel == InitKernel /\ [][NextKernel]_vars

\* C14: intersection is total: every kernel returns absence or a hit with
\* distance >= 0, never an error; NegativeIntersectionDistance is never
\* produced.
C14_IntersectionTotal ==
    /\ (result.op \in {"sphere_intersect", "plane_intersect"}) =>
           (result.value.some => (result.value.value.distance >= 0))
    /\ (result.op = "triangle_intersect") =>
           /\ result.value.ok
           /\ result.value.value.some =>
                  /\ ~result.value.value.value.nan
                  /\ result.value.value.value.distance >= 0

\* C15: a ray tangent to the sphere (zero discriminant) is no hit.
C15_TangentIsNoHit ==
    ((result.op = "sphere_intersect")
        /\ (Discriminant(Sphere(args.center, args.radius), ray.value) = 0)) =>
        ~result.value.some

\* The three vertices lie on one line (edge1 parallel to edge2).
Colinear(t) == Cross(Sub(t[2], t[1]), Sub(t[3], t[1])) = Pt(0, 0, 0)

\* C16: a triangle with colinear vertices never reports a hit.
C16_DegenerateTriangleNoHit ==
    ((result.op = "triangle_intersect") /\ Colinear(args.vertices)) =>
        (result.value = Ok(None))

\* C20: Sphere::new fails with GeometryError::InvalidRadius whenever
\* radius < 0 and succeeds for every radius >= 0.
C20_NegativeRadiusRejected ==
    ((args.op = "sphere_new") /\ (pc # "start")) =>
        IF args.radius < 0
        THEN (pc = "failed") /\ (error = "InvalidRadius")
        ELSE (pc = "done") /\ (result.value = Ok(Sphere(args.center, args.radius)))

(***************************************************************************)
(* An Instance of a mesh: Mesh::new builds the Bvh over the triangles,     *)
(* Instance::new places the mesh under a transformation, and rays are      *)
(* cast at the instance.                                                   *)
(***************************************************************************)
\* The right triangle with legs of 4 whose right angle is at p, in the
\* plane z = p[2], its three vertex normals +z.
TriangleAt(p) ==
    TriangleNew(Vertices(<<p, Add(p, Pt(4, 0, 0)), Add(p, Pt(0, 4, 0))>>), AxisNormal(2, 1))

MeshTriangles == {TriangleAt(Pt(0, 0, 0)), TriangleAt(Pt(8, 0, 0)), TriangleAt(Pt(0, 0, -2))}

\* Every non-empty triangle list of at most n triangles.
MeshLayouts(n) == {l \in Layouts(MeshTriangles, n) : VecLen(l) > 0}

Identity3 == Rows(Pt(1, 0, 0), Pt(0, 1, 0), Pt(0, 0, 1))

\* Translations, a quarter turn about z, the mirror in z = 0, and two
\* matrices without inverse: zero, and the projection onto z = 0.
Transforms ==
    {Matrix4(Identity3, Pt(0, 0, 0)),
     Matrix4(Identity3, Pt(10, 0, 0)),
     Matrix4(Identity3, Pt(0, 0, 4)),
     Matrix4(Rows(Pt(0, -1, 0), Pt(1, 0, 0), Pt(0, 0, 1)), Pt(2, 0, 0)),
     Matrix4(Rows(Pt(1, 0, 0), Pt(0, 1, 0), Pt(0, 0, -1)), Pt(0, 0, 0)),
     Matrix4(Rows(Pt(0, 0, 0), Pt(0, 0, 0), Pt(0, 0, 0)), Pt(0, 0, 0)),
     Matrix4(Rows(Pt(1, 0, 0), Pt(0, 1, 0), Pt(0, 0, 0)), Pt(10, 0, 0))}

InstanceRayOrigins == {Pt(11, 1, 1), Pt(1, 1, 2), Pt(9, 1, 2), Pt(1, 1, -4), Pt(-1, 1, 0)}

InitInstance == InitWith(SceneArgs, MeshLayouts(MaxMeshPrims))

\* Instance::new on the built mesh
InstanceNewCall ==
    /\ pc = "built"
    /\ \E transform \in Transforms :
           LET r == InstanceNew(shapes, transform)
           IN  /\ result' = [op |-> "instance_new", transform |-> transform]
               /\ IF r.ok
                  THEN /\ instance' = Some(r.value)
                       /\ pc' = "instanced"
                       /\ error' = error
                  ELSE /\ instance' = instance
                       /\ pc' = "failed"
                       /\ error' = r.err
    /\ UNCHANGED <<readers, args, config, shapes, builder, ray>>

\* Ray::new.  One ray is cast at each instance.
InstanceCastRay ==
    /\ pc = "instanced"
    /\ ~ray.some
    /\ \E origin \in InstanceRayOrigins, direction \in Directions :
           ray' = Some(RayNew(origin, direction))
    /\ UNCHANGED <<pc, instance, readers, args, config, error, shapes, builder, result>>

\* <Instance as Traceable>::intersect
InstanceIntersectCall ==
    /\ pc = "instanced"
    /\ ray.some
    /\ result' = [op |-> "instance_intersect",
                  value |-> InstanceIntersect(instance.value, nodes, indices, ray.value, shapes)]
    /\ UNCHANGED <<pc, instance, readers, args, config, error, shapes, builder, ray>>

NextInstance ==
    \/ ConfigNew
    \/ BvhNew
    \/ Build
    \/ Subdivide
    \/ SubdivideLeftReturn
    \/ SubdivideRightReturn
    \/ BuildFinish
    \/ InstanceNewCall
    \/ InstanceCastRay
    \/ InstanceIntersectCall

\* Mesh::new, Instance::new and Instance::intersect.
SpecInstance == InitInstance /\ [][NextInstance]_vars

\* The world ray taken back to object space by the transpose of the linear
\* part, which is its inverse for the rotations and mirrors drawn here.
ObjectRay(m, r) ==
    RayNew(MulVec(Transpose(m.linear), Sub(r.origin, m.translation)),
           MulVec(Transpose(m.linear), r.direction))

\* C17: transform covariance: Instance::intersect hits exactly when the
\* mesh is hit by the object-space ray that the transformation maps onto
\* the world ray, with the same triangle index; under a pure translation
\* by d the result is mesh.intersect on the ray with origin shifted by -d,
\* with identical distance and normals.
C17_TransformCovariance ==
    (result.op = "instance_intersect") =>
        LET m == instance.value.object_to_world
            ro == ObjectRay(m, ray.value)
            expected == MeshIntersect(nodes, indices, ro, shapes)
        IN  /\ transform_point(m, ro.origin) = ray.value.origin
            /\ transform_vector(m, ro.direction) = ray.value.direction
            /\ result.value.some <=> expected.some
            /\ result.value.some => (result.value.value.index = expected.value.index)
            /\ (m.linear = Identity3) =>
                   (result.value = MeshIntersect(nodes, indices,
                                                 RayNew(Sub(ray.value.origin, m.translation),
                                                        ray.value.direction),
                                                 shapes))

\* C17 witness: a single-triangle mesh translated by (10, 0, 0) and hit
\* from above, one unit over the triangle: distance 1, normal (0, 0, 1),
\* triangle index 0.
C17_Witness ==
    /\ result.op = "instance_intersect"
    /\ shapes = (0 :> TriangleAt(Pt(0, 0, 0)))
    /\ instance.value.object_to_world = Matrix4(Identity3, Pt(10, 0, 0))
    /\ ray.value.origin = Pt(11, 1, 1)
    /\ ray.value.direction = Pt(0, 0, -1)
    /\ result.value.some
    /\ result.value.value.distance = 1
    /\ result.value.value.interpolated_normal = Pt(0, 0, 1)
    /\ result.value.value.index = 0

\* The product of two affine matrices.
Compose(m, n) ==
    Matrix4([i \in Axes |-> [j \in Axes |-> Dot(m.linear[i], Transpose(n.linear)[j])]],
            transform_point(m, n.translation))

ReaderShapes == {CubeAt(0, 0), CubeAt(4, 0)}

ReaderRays ==
    {RayNew(Pt(-2, 1, 1), Pt(1, 0, 0)), RayNew(Pt(5, 1, 4), Pt(0, 0, -1)),
     RayNew(Pt(1, 1, 4), Pt(0, 0, -1))}

ReaderQueries ==
    [op : {"intersect"}, ray : ReaderRays, max_distance : {0}]
        \cup [op : {"intersect_any"}, ray : ReaderRays, max_distance : {2}]

InitReaders == InitWith(SceneArgs, Layouts(ReaderShapes, MaxScenePrims))

\* Bvh::intersect or Bvh::intersect_any is called by a caller.
ReaderStart ==
    /\ pc = "built"
    /\ \E r \in Readers, q \in ReaderQueries :
           /\ readers[r].op = "idle"
           /\ readers' = [readers EXCEPT ![r] = ReaderEnter(q.op, q.ray, q.max_distance)]
    /\ UNCHANGED <<pc, instance, args, config, error, shapes, builder, ray, result>>

\* The innermost invocation of a caller runs to its first recursive call or
\* to its return.
ReaderCall ==
    /\ \E r \in Readers :
           /\ readers[r].stack # <<>>
           /\ Head(readers[r].stack).at = "call"
           /\ readers' = [readers EXCEPT ![r] = ReaderVisit(readers[r], nodes, indices, shapes)]
    /\ UNCHANGED <<pc, instance, args, config, error, shapes, builder, ray, result>>

\* The call on the left child has returned to a caller's invocation.
ReaderLeftReturn ==
    /\ \E r \in Readers :
           /\ readers[r].stack # <<>>
           /\ Head(readers[r].stack).at = "left"
           /\ readers' = [readers EXCEPT ![r] = ReaderAfterLeft(readers[r])]
    /\ UNCHANGED <<pc, instance, args, config, error, shapes, builder, ray, result>>

\* The call on the right child has returned to a caller's invocation.
ReaderRightReturn ==
    /\ \E r \in Readers :
           /\ readers[r].stack # <<>>
           /\ Head(readers[r].stack).at = "right"
           /\ readers' = [readers EXCEPT ![r] = ReaderAfterRight(readers[r])]
    /\ UNCHANGED <<pc, instance, args, config, error, shapes, builder, ray, result>>

NextReaders ==
    \/ ConfigNew
    \/ BvhNew
    \/ Build
    \/ Subdivide
    \/ SubdivideLeftReturn
    \/ SubdivideRightReturn
    \/ BuildFinish
    \/ ReaderStart
    \/ ReaderCall
    \/ ReaderLeftReturn
    \/ ReaderRightReturn

\* Bvh::new followed by queries of two callers that interleave.
SpecReaders == InitReaders /\ [][NextReaders]_vars

\* A query that has returned to its caller.
Finished(rd) == (rd.op # "idle") /\ (rd.stack = <<>>)

\* What the query returns when it runs alone on the Bvh.
Alone(rd) ==
    IF rd.op = "intersect"
    THEN BvhIntersect(nodes, indices, rd.ray.value, shapes)
    ELSE BvhIntersectAny(nodes, indices, rd.ray.value, shapes, rd.max_distance)

Speck(x, y, z) == Box(Pt(x, y, z), Pt(x, y, z))

\* A box without height: a square in the plane z = 0.
Tile(x, y) == Box(Pt(x, y, 0), Pt(x + 2, y + 2, 0))

\* Speck(1, 1, 1) lies on the centroid of CubeAt(0, 0); the two specks span
\* a segment, and tiles span a rectangle.
DegenerateShapes == {CubeAt(0, 0), Speck(1, 1, 1), Speck(5, 1, 1), Tile(4, 0)}

DegenerateArgs ==
    Args({DEFAULT_TRAVERSE_COST}, {DEFAULT_INTERSECT_COST}, {2, DEFAULT_SAH_BUCKETS},
         {3}, {2, DEFAULT_MAX_DEPTH})

InitDegenerate == InitWith(DegenerateArgs, Layouts(DegenerateShapes, MaxPrims))

\* Where the caller of the build can be.
PcValues == {"start", "configured", "build", "subdivide", "built", "failed", "panicked"}

\* The pending invocations of subdivide that a build over at most n
\* primitives can hold.
Frames(n) ==
    [index : 0 .. (PoolSize(n) - 1), current_depth : 0 .. n, at : {"call", "left", "right"},
     left_depth : 0 .. n, right_child_index : 0 .. (PoolSize(n) - 1)]

\* The call stacks of subdivide over at most n primitives.
IsStack(s, n) == \E k \in 0 .. (n + 1) : s \in [1 .. k -> Frames(n)]

\* The build has neither returned nor panicked.
Running == pc \in {"start", "configured", "build", "subdivide"}

\* The running build goes on.
Proceeds == Running /\ (pc' \in PcValues) /\ IsStack(stack', MaxPrims)

SpecDegenerate == InitDegenerate /\ [][Next]_vars /\ WF_<<pc, stack>>(Proceeds)

\* The invocation of subdivide that is about to run, if any.
Subdividing == (pc = "subdivide") /\ (stack # <<>>) /\ (Head(stack).at = "call")

Barycentric(vertices, r) ==
    LET edge1 == Sub(vertices[2], vertices[1])
        edge2 == Sub(vertices[3], vertices[1])
        h == Cross(r.direction, edge2)
        s == Sub(r.origin, vertices[1])
        q == Cross(s, edge1)
    IN  [a |-> Dot(edge1, h), u |-> Dot(s, h), v |-> Dot(r.direction, q), t |-> Dot(edge2, q),
         epsilon_is_zero |-> (edge1 = Pt(0, 0, 0)) /\ (edge2 = Pt(0, 0, 0))]

\* |a| >= eps, 0 <= u <= 1, v >= 0, u + v <= 1 and t > eps.  With a = 0
\* either eps > 0 = |a|, or eps = 0 and u = (1 / 0) * 0 is NaN, of which
\* 0 <= u is false.
HitConditions(b) ==
    /\ b.a # 0
    /\ 0 <= Sign(b.a) * b.u
    /\ Sign(b.a) * b.u <= Abs(b.a)
    /\ 0 <= Sign(b.a) * b.v
    /\ Sign(b.a) * (b.u + b.v) <= Abs(b.a)
    /\ 0 < Sign(b.a) * b.t

\* C23: Triangle::intersect returns a hit iff |a| >= eps, 0 <= u <= 1,
\* v >= 0, u + v <= 1 and t > eps, and the distance of the hit is t; a ray
\* from above the right triangle pointing away from it reports no hit, the
\* same ray reversed reports its height above the plane.
C23_TriangleHitIff ==
    (result.op = "triangle_intersect") =>
        \E b \in {Barycentric(args.vertices, ray.value)} :
            /\ result.value.ok
            /\ result.value.value.some <=> HitConditions(b)
            /\ result.value.value.some =>
                   /\ ~result.value.value.value.nan
                   /\ result.value.value.value.distance = (Sign(b.a) * b.t) \div Abs(b.a)
            /\ ((args.vertices = <<Pt(0, 0, 0), Pt(4, 0, 0), Pt(0, 4, 0)>>)
                    /\ (args.origin = Pt(1, 1, 2))) =>
                   /\ (args.direction = AxisNormal(2, 1)) => ~result.value.value.some
                   /\ (args.direction = AxisNormal(2, -1)) =>
                          /\ result.value.value.some
                          /\ result.value.value.value.distance = 2

(***************************************************************************)
(* find_best_split on its own: applied once to the root node that build    *)
(* has bounded, over layouts with a mirror symmetry between x and y and    *)
(* with empty buckets between the primitives.                              *)
(***************************************************************************)
SplitShapes == {CubeAt(0, 0), CubeAt(4, 0), CubeAt(0, 4), Speck(1, 1, 1), Speck(5, 1, 1)}

SplitArgs ==
    Args({DEFAULT_TRAVERSE_COST}, {DEFAULT_INTERSECT_COST}, {2, 4}, {3}, {DEFAULT_MAX_DEPTH})

InitSplit == InitWith(SplitArgs, Layouts(SplitShapes, MaxSplitPrims))

\* BvhBuilder::find_best_split on the root
FindBestSplitCall ==
    /\ pc = "subdivide"
    /\ stack = <<Frame(0, 0)>>
    /\ result' = [op |-> "find_best_split",
                  value |-> find_best_split(nodes, indices, shapes, config.value, 0)]
    /\ pc' = "split_found"
    /\ UNCHANGED <<instance, readers, args, config, error, shapes, builder, ray>>

NextSplit ==
    \/ ConfigNew
    \/ BvhNew
    \/ Build
    \/ FindBestSplitCall

SpecSplit == InitSplit /\ [][NextSplit]_vars

\* The smallest box around the primitives ps.
Hull(ps, sh) ==
    AabbNew([i \in Axes |-> CHOOSE m \in {aabb(sh[p]).mins[i] : p \in ps} :
                                \A p \in ps : m <= aabb(sh[p]).mins[i]],
            [i \in Axes |-> CHOOSE m \in {aabb(sh[p]).maxs[i] : p \in ps} :
                                \A p \in ps : m >= aabb(sh[p]).maxs[i]])

\* The primitives of a node.
PrimsOf(node, ind) == {ind[node.left_child + i] : i \in 0 .. (node.count - 1)}

\* The primitives of a node binned below the boundary k on an axis.
BinnedBelow(node, ind, sh, sah_buckets, axis, k) ==
    {p \in PrimsOf(node, ind) :
        bucket_index(centre(aabb(sh[p]))[axis], node.aabb.mins[axis],
                     node.aabb.maxs[axis] - node.aabb.mins[axis], sah_buckets) < k}

\* The candidate splits <<axis, k>> of a node: both sides hold a primitive.
Candidates(node, ind, sh, sah_buckets) ==
    {c \in Axes \X (1 .. (sah_buckets - 1)) :
        /\ node.aabb.maxs[c[1]] - node.aabb.mins[c[1]] > 0
        /\ BinnedBelow(node, ind, sh, sah_buckets, c[1], c[2]) # {}
        /\ BinnedBelow(node, ind, sh, sah_buckets, c[1], c[2]) # PrimsOf(node, ind)}

\* The SAH cost of a candidate, times the node's surface area.
CandidateCost(node, ind, sh, cfg, c) ==
    LET left == BinnedBelow(node, ind, sh, cfg.sah_buckets, c[1], c[2])
        right == PrimsOf(node, ind) \ left
    IN  (cfg.traverse_cost * surface_area(node.aabb))
        + (surface_area(Hull(left, sh)) * Cardinality(left) * cfg.intersect_cost)
        + (surface_area(Hull(right, sh)) * Cardinality(right) * cfg.intersect_cost)

\* The candidates of minimum cost.
Cheapest(node, ind, sh, cfg) ==
    {c \in Candidates(node, ind, sh, cfg.sah_buckets) :
        \A d \in Candidates(node, ind, sh, cfg.sah_buckets) :
            CandidateCost(node, ind, sh, cfg, c) <= CandidateCost(node, ind, sh, cfg, d)}

\* Earliest axis, then lowest boundary.
Earlier(c, d) == (c[1] < d[1]) \/ ((c[1] = d[1]) /\ (c[2] <= d[2]))

\* C24: what find_best_split returns is a candidate of minimum SAH cost,
\* and among the candidates of minimum cost the one on the earliest axis
\* and, on that axis, at the lowest boundary; a node with positive surface
\* area and a candidate gets one.
C24_TieBreak ==
    (pc = "split_found") =>
        \E node \in {nodes[0]} :
        \E cheapest \in {Cheapest(node, indices, shapes, config.value)} :
            /\ result.value.some =>
                   \E c \in cheapest :
                       /\ \A d \in cheapest : Earlier(c, d)
                       /\ result.value.value.axis = c[1]
                       /\ result.value.value.position
                              = (node.aabb.mins[c[1]] * config.value.sah_buckets)
                                + ((node.aabb.maxs[c[1]] - node.aabb.mins[c[1]]) * c[2])
                       /\ result.value.value.cost
                              = CandidateCost(node, indices, shapes, config.value, c)
            /\ ((surface_area(node.aabb) > 0) /\ (cheapest # {})) => result.value.some

\* C24 witness: find_best_split has returned a split of a node whose
\* cheapest candidates lie on two axes and at two boundaries of one axis.
C24_Witness ==
    /\ pc = "split_found"
    /\ result.value.some
    /\ \E cheapest \in {Cheapest(nodes[0], indices, shapes, config.value)} :
           /\ \E c, d \in cheapest : c[1] # d[1]
           /\ \E c, d \in cheapest : (c[1] = d[1]) /\ (c[2] # d[2])

(***************************************************************************)
(* The partition of a node that is split.                                  *)
(***************************************************************************)
\* The positions of the index array that a node owns.
RangeOf(node) == node.left_child .. (node.left_child + node.count - 1)

\* How often the primitive v occurs at the positions ps of an index array.
Occurrences(ind, ps, v) == Cardinality({p \in ps : ind[p] = v})

\* The centroid of the primitive at position p of the index array lies
\* strictly below the split position (kept times sah_buckets).
Below(ind, sh, cfg, best_split, p) ==
    centre(aabb(sh[ind[p]]))[best_split.axis] * cfg.sah_buckets < best_split.position

\* C25: when subdivide turns a node into an internal node, with the axis
\* and position that find_best_split chose for it, every index in the left
\* child's range has its centroid strictly below the position, every index
\* in the right child's range has it at or above, and the parent's range
\* holds the same indices as often as before.
C25_PartitionPostcondition ==
    [][(Subdividing /\ (nodes'[Head(stack).index].count = 0)) =>
           \E parent \in {nodes[Head(stack).index]} :
           \E best_split \in {find_best_split(nodes, indices, shapes, config.value,
                                              Head(stack).index).value} :
           \E left \in {nodes'[nodes'[Head(stack).index].left_child]} :
           \E right \in {nodes'[nodes'[Head(stack).index].left_child + 1]} :
               /\ \A p \in RangeOf(left) : Below(indices', shapes, config.value, best_split, p)
               /\ \A p \in RangeOf(right) : ~Below(indices', shapes, config.value, best_split, p)
               /\ \A v \in DOMAIN shapes :
                      Occurrences(indices', RangeOf(parent), v)
                          = Occurrences(indices, RangeOf(parent), v)]_vars

\* The split that made n an internal node: find_best_split on n as it
\* was, a leaf over the ranges of its two children.
SplitOf(n) ==
    find_best_split([nodes EXCEPT ![n].left_child = nodes[nodes[n].left_child].left_child,
                                  ![n].count = nodes[nodes[n].left_child].count
                                               + nodes[nodes[n].left_child + 1].count],
                    indices, shapes, config.value, n).value

\* C25 witness: the root has been split and nothing below it yet, the
\* exchange has moved indices, and a primitive of the right child has its
\* centroid on the split position.
C25_Witness ==
    /\ pc = "subdivide"
    /\ nodes_used = 3
    /\ nodes[0].count = 0
    /\ \E p \in DOMAIN indices : indices[p] # p
    /\ \E p \in RangeOf(nodes[2]) :
           centre(aabb(shapes[indices[p]]))[SplitOf(0).axis] * config.value.sah_buckets
               = SplitOf(0).position

(***************************************************************************)
(* Depth of the nodes and the recorded depth.                              *)
(***************************************************************************)
RECURSIVE NodeDepth(_)
\* The number of edges from the root down to node n.
NodeDepth(n) == IF n = 0 THEN 0 ELSE 1 + NodeDepth(CHOOSE p \in ParentsOf(n) : TRUE)

\* The largest number of a non-empty finite set of numbers.
Maximum(S) == CHOOSE m \in S : \A x \in S : x <= m

\* C26: subdivide is entered on a node with that node's depth and never
\* splits a node at depth >= max_depth; in the built Bvh every node has
\* depth <= max_depth, and depth is the largest depth of a leaf.
C26_DepthCap ==
    /\ [](Subdividing => (Head(stack).current_depth = NodeDepth(Head(stack).index)))
    /\ [][(Subdividing /\ (NodeDepth(Head(stack).index) >= config.value.max_depth)) =>
              (nodes' = nodes)]_vars
    /\ []((pc = "built") =>
              /\ \A n \in DOMAIN nodes : NodeDepth(n) <= config.value.max_depth
              /\ depth = Maximum({NodeDepth(n) : n \in Leaves}))

\* C26 witness: a built Bvh whose recorded depth is max_depth, with a leaf
\* at that depth left above the leaf cap under an internal root.
C26_Witness ==
    /\ pc = "built"
    /\ depth = config.value.max_depth
    /\ \E n \in Leaves :
           /\ NodeDepth(n) = depth
           /\ nodes[n].count > config.value.max_shapes_per_node
    /\ nodes[0].count = 0

(***************************************************************************)
(* The boxes of the nodes.                                                 *)
(***************************************************************************)
RECURSIVE PrimsUnder(_)
\* The primitives of the leaves at or below node n.
PrimsUnder(n) ==
    IF nodes[n].count > 0 THEN PrimsOf(nodes[n], indices)
    ELSE PrimsUnder(nodes[n].left_child) \cup PrimsUnder(nodes[n].left_child + 1)

\* Box a lies inside box b.
Contained(a, b) == \A i \in Axes : (b.mins[i] <= a.mins[i]) /\ (a.maxs[i] <= b.maxs[i])

\* C27: from the moment a node is in use, through every later exchange of
\* indices and in the built Bvh, its box is the smallest box around the
\* primitives of the leaves at or below it; so the box of a child lies
\* inside its parent's and the root's box bounds every primitive.
C27_BoundingInvariant ==
    (pc \in {"subdivide", "built"}) =>
        /\ \A n \in Leaves \cup Internal : nodes[n].aabb = Hull(PrimsUnder(n), shapes)
        /\ \A n \in Internal :
               /\ Contained(nodes[nodes[n].left_child].aabb, nodes[n].aabb)
               /\ Contained(nodes[nodes[n].left_child + 1].aabb, nodes[n].aabb)
        /\ \A p \in DOMAIN shapes : Contained(aabb(shapes[p]), nodes[0].aabb)

\* C27 witness: a built Bvh of depth 2 whose index array was reordered and
\* in which a child's box is strictly smaller than the root's.
C27_Witness ==
    /\ pc = "built"
    /\ depth = 2
    /\ \E p \in DOMAIN indices : indices[p] # p
    /\ \E n \in Internal : (n # 0) /\ (nodes[n].aabb # nodes[0].aabb)

(***************************************************************************)
(* The index ranges of the nodes.                                          *)
(***************************************************************************)
\* C28: a split gives its two children non-empty ranges, the left one
\* starting where the parent's did and the right one where the left one
\* ends, with counts that sum to the parent's; in the built Bvh every
\* position of the index array lies in the range of exactly one leaf and
\* every primitive index occurs once, in exactly one leaf.
C28_RangesPartition ==
    /\ [][(Subdividing /\ (nodes'[Head(stack).index].count = 0)) =>
              \E parent \in {nodes[Head(stack).index]} :
              \E left \in {nodes'[nodes'[Head(stack).index].left_child]} :
              \E right \in {nodes'[nodes'[Head(stack).index].left_child + 1]} :
                  /\ left.count > 0
                  /\ right.count > 0
                  /\ left.left_child = parent.left_child
                  /\ right.left_child = left.left_child + left.count
                  /\ left.count + right.count = parent.count
                  /\ RangeOf(left) \cup RangeOf(right) = RangeOf(parent)]_vars
    /\ []((pc = "built") =>
              /\ \A p \in DOMAIN indices :
                     Cardinality({n \in Leaves : p \in RangeOf(nodes[n])}) = 1
              /\ \A n \in Leaves : RangeOf(nodes[n]) \subseteq DOMAIN indices
              /\ \A v \in DOMAIN shapes :
                     /\ Occurrences(indices, DOMAIN indices, v) = 1
                     /\ Cardinality({n \in Leaves : v \in PrimsOf(nodes[n], indices)}) = 1)

\* C28 witness: a built Bvh with three leaves, one of them holding a single
\* primitive and one several.
C28_Witness ==
    /\ pc = "built"
    /\ Cardinality(Leaves) = 3
    /\ \E n \in Leaves : nodes[n].count = 1
    /\ \E n \in Leaves : nodes[n].count > 1

(***************************************************************************)
(* Binning and partitioning in rounded arithmetic.  A scalar is a binary   *)
(* floating-point number with SignificandBits bits, kept as an integer in  *)
(* units of 2^-FractionBits; each operation of the source is rounded to    *)
(* the nearest scalar, ties to even, as IEEE 754 arithmetic is.  The       *)
(* expressions are those of find_best_split and subdivide, operation by    *)
(* operation, applied once to a centroid and a node drawn by Init.         *)
(***************************************************************************)
\* The scalar 1.
One == 2 ^ FractionBits

\* The exponent of the last place of a scalar of magnitude t.
Shift(t) ==
    CHOOSE sh \in 0 .. (2 * FractionBits) : t < 2 ^ (SignificandBits + sh)

\* The scalar nearest to num / den, for num >= 0 and den > 0.
RoundRatio(num, den) ==
    LET ulp == 2 ^ Shift(num \div den)
        t == num \div (den * ulp)
        r == num - (t * den * ulp)
        up == (2 * r > den * ulp) \/ ((2 * r = den * ulp) /\ (t % 2 = 1))
    IN  (IF up THEN t + 1 ELSE t) * ulp

\* The scalar nearest to x.
Round(x) == IF x >= 0 THEN RoundRatio(x, 1) ELSE -RoundRatio(-x, 1)

\* ((centroid - mins) / extent * sah_buckets).floor().to_usize()
\*     .unwrap_or(0).min(sah_buckets - 1)
bucket_index_rounded(centroid, mins, extent, sah_buckets) ==
    LET offset == Round(centroid - mins)
    IN  IF offset < 0 THEN 0
        ELSE Min(Round(RoundRatio(offset * One, extent) * sah_buckets) \div One, sah_buckets - 1)

\* mins + extent * split_bucket / sah_buckets
split_position_rounded(mins, extent, split_bucket, sah_buckets) ==
    Round(mins + RoundRatio(Round(extent * split_bucket), sah_buckets))

\* The scalars among the quarters from 0 to 8.
Scalars == {x \in {q * (One \div 4) : q \in 0 .. 32} : Round(x) = x}

\* A node spanning [mins, maxs] on the axis, a centroid inside it, and a
\* boundary between two buckets.
BinningArgs ==
    {a \in [op : {"binning"}, mins : Scalars, maxs : Scalars, centroid : Scalars,
            sah_buckets : {2, 4}, split_bucket : 1 .. 3] :
        /\ a.mins < a.maxs
        /\ a.mins <= a.centroid
        /\ a.centroid <= a.maxs
        /\ a.split_bucket < a.sah_buckets}

InitBinning == InitWith(BinningArgs, {<<>>})

\* find_best_split: the bucket of the centroid
BucketIndexCall ==
    /\ pc = "start"
    /\ result' = [op |-> "binning",
                  extent |-> Round(args.maxs - args.mins),
                  bucket_index |-> bucket_index_rounded(args.centroid, args.mins,
                                                        Round(args.maxs - args.mins),
                                                        args.sah_buckets)]
    /\ pc' = "binned"
    /\ UNCHANGED <<instance, readers, args, config, error, shapes, builder, ray>>

\* find_best_split: the position of the boundary
SplitPositionCall ==
    /\ pc = "binned"
    /\ result' = [op |-> "split", extent |-> result.extent, bucket_index |-> result.bucket_index,
                  position |-> split_position_rounded(args.mins, result.extent,
                                                      args.split_bucket, args.sah_buckets)]
    /\ pc' = "positioned"
    /\ UNCHANGED <<instance, readers, args, config, error, shapes, builder, ray>>

\* subdivide: the test of the partition loop
PartitionTestCall ==
    /\ pc = "positioned"
    /\ result' = [op |-> "partition", extent |-> result.extent,
                  bucket_index |-> result.bucket_index, position |-> result.position,
                  left |-> (args.centroid < result.position)]
    /\ pc' = "partitioned"
    /\ UNCHANGED <<instance, readers, args, config, error, shapes, builder, ray>>

NextBinning ==
    \/ BucketIndexCall
    \/ SplitPositionCall
    \/ PartitionTestCall

SpecBinning == InitBinning /\ [][NextBinning]_vars

SingleBucketArgs ==
    Args({DEFAULT_TRAVERSE_COST}, {DEFAULT_INTERSECT_COST}, {1, 2},
         {3, DEFAULT_MAX_SHAPES_PER_NODE}, {1, DEFAULT_MAX_DEPTH})

InitSingleBucket == InitWith(SingleBucketArgs, Layouts(BuildShapes, MaxPrims))

SpecSingleBucket == InitSingleBucket /\ [][Next]_vars

\* C30: sah_buckets = 1 is accepted by BvhConfig::new; subdivide then
\* returns at the root, on the leaf cap or for want of a split candidate,
\* and the built Bvh is one leaf holding all N primitives, with depth 0.
C30_SingleBucketSingleLeaf ==
    (args.sah_buckets = 1) =>
        /\ (pc # "start") => (config.some /\ (config.value.sah_buckets = 1))
        /\ (0 \in DOMAIN returned) => (returned[0].at \in {"termination", "no_split"})
        /\ (pc = "subdivide") => (nodes_used = 1)
        /\ (pc = "built") =>
               /\ VecLen(nodes) = 1
               /\ nodes[0].left_child = 0
               /\ nodes[0].count = VecLen(shapes)
               /\ depth = 0

\* C30 witness: a Bvh built with one bucket over five primitives, the two
\* cubes among them, above the leaf cap and below the depth limit, where
\* find_best_split returned no candidate.
C30_Witness ==
    /\ pc = "built"
    /\ args.sah_buckets = 1
    /\ VecLen(shapes) = 5
    /\ \E i, j \in DOMAIN shapes : (shapes[i] = CubeAt(0, 0)) /\ (shapes[j] = CubeAt(4, 0))
    /\ returned[0].at = "no_split"
    /\ VecLen(nodes) = 1

====
